---- MODULE Spec2Model ----
(***************************************************************************)
(* Hotel reservation demo service (src/app.js): the request pipeline       *)
(* (identity resolution, chaos check, route handlers), the reservation     *)
(* store with its availability check and capacity eviction, and the token  *)
(* and cookie-session registries.                                          *)
(*                                                                         *)
(* Representation.                                                         *)
(*  - A JavaScript string a client supplies is a sequence of one-character *)
(*    strings, so that the regular expressions, Number() and escapeHtml    *)
(*    can be computed character by character.  The value undefined (a      *)
(*    form field or cookie that is absent) is Undefined, a sequence that   *)
(*    is no character string.                                              *)
(*  - A JavaScript number that may be NaN is a record [nan, v].            *)
(*  - A Date is its time value, counted in hours since 1970-01-01T00:00Z   *)
(*    (the code counts milliseconds; every time the code computes is a     *)
(*    whole number of hours).                                              *)
(***************************************************************************)
EXTENDS Integers, Sequences, FiniteSets, Bags, TLC

(***************************************************************************)
(* The fields of the model's records.  TLC keeps the fields of a record in *)
(* the order in which their names first occur in the module; every record  *)
(* below lists its fields in the order of this list, so that each record   *)
(* is built in normal form.                                                *)
(***************************************************************************)
RecordFields ==
  [nan |-> "number", v |-> "number",
   year |-> "date", month |-> "date", day |-> "date",
   seq |-> "response",
   method |-> "request", path |-> "request", cookie |-> "request",
   query |-> "request", body |-> "request", params |-> "request",
   qtoken |-> "response", btoken |-> "response",
   req |-> "suspended", user |-> "request", token |-> "request",
   sessions |-> "identity", delay |-> "suspended",
   status |-> "response", page |-> "response", location |-> "response",
   linkToken |-> "response", setCookie |-> "response", links |-> "response",
   rows |-> "response",
   id |-> "reservation", filename |-> "request",
   username |-> "body", createdAt |-> "token",
   password |-> "body", guest |-> "body", room |-> "body",
   checkIn |-> "body", nights |-> "body", date |-> "reservation",
   bookedBy |-> "reservation",
   delays |-> "config", login |-> "delays", menu |-> "delays",
   reserve |-> "delays", overview |-> "delays", rooms |-> "delays",
   delay_login |-> "body", delay_reserve |-> "body", delay_rooms |-> "body",
   errorRate |-> "config", authMode |-> "config"]

(***************************************************************************)
(* Bounds of the model.                                                    *)
(***************************************************************************)
\* requests the clients send in one behaviour
MaxRequests == 2
\* free places left in the store of the initial states of SpecFull
FreeSlots == 0

(***************************************************************************)
(* Strings and numbers                                                     *)
(***************************************************************************)
Undefined == <<"undefined">>

Truthy(s) == s # Undefined /\ s # <<>>

Digits == {"0", "1", "2", "3", "4", "5", "6", "7", "8", "9"}

DigitVal(c) ==
  CASE c = "0" -> 0 [] c = "1" -> 1 [] c = "2" -> 2 [] c = "3" -> 3
    [] c = "4" -> 4 [] c = "5" -> 5 [] c = "6" -> 6 [] c = "7" -> 7
    [] c = "8" -> 8 [] c = "9" -> 9

AllDigits(s) == \A i \in 1..Len(s) : s[i] \in Digits

RECURSIVE DecVal(_)
DecVal(s) ==
  IF s = <<>> THEN 0
  ELSE 10 * DecVal(SubSeq(s, 1, Len(s) - 1)) + DigitVal(s[Len(s)])

NaN == [nan |-> TRUE, v |-> 0]
Num(n) == [nan |-> FALSE, v |-> n]

\* Number(x) for x undefined, the empty string, a decimal integer literal
\* with an optional sign, or a string that is no numeric literal.
Number(s) ==
  IF s = Undefined THEN NaN
  ELSE IF s = <<>> THEN Num(0)
  ELSE IF AllDigits(s) THEN Num(DecVal(s))
  ELSE IF s[1] \in {"-", "+"} /\ Len(s) > 1 /\ AllDigits(Tail(s))
    THEN Num(IF s[1] = "-" THEN 0 - DecVal(Tail(s)) ELSE DecVal(Tail(s)))
  ELSE NaN

\* x || d for a number x: NaN and 0 are falsy.
NumberOr(x, d) == IF x.nan \/ x.v = 0 THEN d ELSE x.v

\* a < b and a > b on numbers: every comparison with NaN is false.
NumLt(a, b) == ~a.nan /\ ~b.nan /\ a.v < b.v
NumGt(a, b) == NumLt(b, a)
NumAdd(a, b) == IF a.nan \/ b.nan THEN NaN ELSE Num(a.v + b.v)
NumMul(a, b) == IF a.nan \/ b.nan THEN NaN ELSE Num(a.v * b.v)

\* one pass of String.prototype.replace(/c/g, to)
RECURSIVE ReplaceAll(_, _, _)
ReplaceAll(s, c, to) ==
  IF s = <<>> THEN <<>>
  ELSE (IF Head(s) = c THEN to ELSE <<Head(s)>>) \o ReplaceAll(Tail(s), c, to)

escapeHtml(unsafe) ==
  IF ~Truthy(unsafe) THEN <<>>
  ELSE
    LET a == ReplaceAll(unsafe, "&", <<"&", "a", "m", "p", ";">>)
        b == ReplaceAll(a, "<", <<"&", "l", "t", ";">>)
        c == ReplaceAll(b, ">", <<"&", "g", "t", ";">>)
        d == ReplaceAll(c, "\"", <<"&", "q", "u", "o", "t", ";">>)
    IN  ReplaceAll(d, "'", <<"&", "#", "0", "3", "9", ";">>)

(***************************************************************************)
(* Dates                                                                   *)
(***************************************************************************)
HoursPerDay == 24

IsLeap(y) == (y % 4 = 0 /\ y % 100 # 0) \/ y % 400 = 0

DaysInMonth(y, m) ==
  IF m = 2 THEN (IF IsLeap(y) THEN 29 ELSE 28)
  ELSE IF m \in {4, 6, 9, 11} THEN 30 ELSE 31

\* the day number of January 1st of year y (ECMAScript DayFromYear)
DayFromYear(y) ==
  365 * (y - 1970) + ((y - 1969) \div 4) - ((y - 1901) \div 100)
    + ((y - 1601) \div 400)

RECURSIVE DaysBeforeMonth(_, _)
DaysBeforeMonth(y, m) ==
  IF m <= 1 THEN 0 ELSE DaysBeforeMonth(y, m - 1) + DaysInMonth(y, m - 1)

\* ECMAScript MakeDay: a day of the month past the month's end runs over
\* into the next month.
MakeDay(y, m, d) == DayFromYear(y) + DaysBeforeMonth(y, m) + d - 1

\* the year of day number n, for days before and after 1970 (\div rounds
\* down, as Math.floor does in ECMAScript's DayFromYear)
YearFromDay(n) ==
  LET lo == IF n >= 0 THEN n \div 366 ELSE (n \div 365) - 1
      hi == IF n >= 0 THEN (n \div 365) + 1 ELSE (n \div 366) + 1
  IN  CHOOSE y \in (1970 + lo)..(1970 + hi) :
        DayFromYear(y) <= n /\ n < DayFromYear(y + 1)

MonthFromDay(n) ==
  LET y == YearFromDay(n)
      k == n - DayFromYear(y)
  IN  CHOOSE m \in 1..12 :
        DaysBeforeMonth(y, m) <= k /\ k < DaysBeforeMonth(y, m) + DaysInMonth(y, m)

DateFromDay(n) ==
  LET y == YearFromDay(n)
  IN  n - DayFromYear(y) - DaysBeforeMonth(y, MonthFromDay(n)) + 1

\* /^\d{4}-\d{2}-\d{2}$/.test(s)
DateRegex(s) ==
  /\ s # Undefined
  /\ Len(s) = 10
  /\ s[5] = "-" /\ s[8] = "-"
  /\ \A i \in {1, 2, 3, 4, 6, 7, 9, 10} : s[i] \in Digits

DateFields(s) ==
  [year  |-> DecVal(SubSeq(s, 1, 4)),
   month |-> DecVal(SubSeq(s, 6, 7)),
   day   |-> DecVal(SubSeq(s, 9, 10))]

\* new Date(s).getTime() for a string of the shape YYYY-MM-DD: midnight UTC
\* of that day; the parser takes any month 1..12 and any day 1..31.
DateParse(s) ==
  LET f == DateFields(s)
  IN  IF f.month \in 1..12 /\ f.day \in 1..31
        THEN Num(MakeDay(f.year, f.month, f.day) * HoursPerDay)
        ELSE NaN

\* the day number of time t on the local calendar, tz hours east of UTC
LocalDay(t, tz) == (t + tz) \div HoursPerDay

isValidDate(dateString, tz) ==
  IF ~DateRegex(dateString) THEN FALSE
  ELSE
    LET date == DateParse(dateString)
        f == DateFields(dateString)
        n == LocalDay(date.v, tz)
    IN  IF date.nan THEN FALSE
        ELSE IF YearFromDay(n) # f.year \/ MonthFromDay(n) # f.month
                  \/ DateFromDay(n) # f.day
          THEN FALSE
          ELSE TRUE

DigitChar(k) == <<"0", "1", "2", "3", "4", "5", "6", "7", "8", "9">>[k + 1]

\* the string YYYY-MM-DD of day number n (years 0000 to 9999)
DateString(n) ==
  LET y == YearFromDay(n)
      m == MonthFromDay(n)
      d == DateFromDay(n)
  IN  <<DigitChar(y \div 1000), DigitChar((y \div 100) % 10),
        DigitChar((y \div 10) % 10), DigitChar(y % 10), "-",
        DigitChar(m \div 10), DigitChar(m % 10), "-",
        DigitChar(d \div 10), DigitChar(d % 10)>>

\* today.setHours(0, 0, 0, 0): local midnight of the current local day
LocalMidnight(t, tz) == LocalDay(t, tz) * HoursPerDay - tz

(***************************************************************************)
(* What the clients send                                                   *)
(***************************************************************************)
User1 == <<"u", "s", "e", "r", "1">>
Admin == <<"a", "d", "m", "i", "n">>
Usernames == {User1, Admin}

Pass1 == <<"P", "a", "s", "s", "w", "o", "r", "d", "1">>
PassAdmin == <<"p", "a", "s", "s", "w", "o", "r", "d">>

\* values crypto.randomBytes(16).toString('hex') can return
RandomHex == {<<"a", "3">>, <<"7", "f">>, <<"c", "9">>, <<"0", "e">>}

\* the order in which the model has them returned
RandomOrder == <<(<<"a", "3">>), (<<"7", "f">>), (<<"c", "9">>), (<<"0", "e">>)>>

\* values Math.random() * 100 can return
RandomPercent == {0, 99}

Cookie == <<"c", "o", "o", "k", "i", "e">>
Token == <<"t", "o", "k", "e", "n">>

Base64(s) == <<"base64", s>>

generateToken(username, randomPart) == <<Base64(username), ".", randomPart>>

Guest == <<"A", "n", "n">>
Annex == <<"A", "n", "n", "e", "x">>
Suite == <<"S", "u", "i", "t", "e">>
BandB == <<"B", "&", "B">>

Mar09 == <<"2", "0", "2", "6", "-", "0", "3", "-", "0", "9">>
Mar10 == <<"2", "0", "2", "6", "-", "0", "3", "-", "1", "0">>
Mar11 == <<"2", "0", "2", "6", "-", "0", "3", "-", "1", "1">>
Mar12 == <<"2", "0", "2", "6", "-", "0", "3", "-", "1", "2">>
Feb30 == <<"2", "0", "2", "6", "-", "0", "2", "-", "3", "0">>
Month13 == <<"2", "0", "2", "6", "-", "1", "3", "-", "0", "1">>
Unpadded == <<"2", "0", "2", "6", "-", "3", "-", "1", "0">>

One == <<"1">>
Two == <<"2">>
Zero == <<"0">>
MinusOne == <<"-", "1">>
Word == <<"x">>

\* the fields of a request body; a field the form does not carry is Undefined
NoBody ==
  [token |-> Undefined, username |-> Undefined, password |-> Undefined,
   guest |-> Undefined, room |-> Undefined, checkIn |-> Undefined,
   nights |-> Undefined, delay_login |-> Undefined,
   delay_reserve |-> Undefined, delay_rooms |-> Undefined,
   errorRate |-> Undefined, authMode |-> Undefined]

\* whether req.body is an object once express.urlencoded has run.  A form
\* with a field always gives one.  For a request without any field the
\* answer depends on the build: Express 4 leaves the empty object, whose
\* fields all read undefined, and Express 5 leaves req.body itself undefined,
\* so that reading a field of it throws.  The identity middleware guards its
\* read (req.body && req.body.token); of the handlers that read the body,
\* POST /login and POST /reserve are only sent forms with a field here.
BodyDefined(body) == IF body = NoBody THEN BOOLEAN ELSE {TRUE}

Booking(g, r, c, n) ==
  [NoBody EXCEPT !.guest = g, !.room = r, !.checkIn = c, !.nights = n]

ReserveBodies ==
  {Booking(Guest, Suite, c, n) : c \in {Mar10, Mar11, Mar12}, n \in {One, Two}}
    \cup {Booking(Guest, BandB, Mar10, One)}
    \cup {Booking(Guest, Suite, Mar10, n) : n \in {Undefined, Zero, MinusOne, Word}}
    \cup {Booking(Undefined, Suite, Mar10, One), Booking(Guest, Undefined, Mar10, One),
          Booking(Guest, Suite, Undefined, One)}
    \cup {Booking(Guest, Suite, c, One) : c \in {Mar09, Feb30, Month13, Unpadded}}

LoginBodies ==
  {[NoBody EXCEPT !.username = User1, !.password = Pass1],
   [NoBody EXCEPT !.username = Admin, !.password = PassAdmin],
   [NoBody EXCEPT !.username = User1, !.password = PassAdmin],
   [NoBody EXCEPT !.username = Admin, !.password = Undefined],
   [NoBody EXCEPT !.password = Pass1]}

ConfigBodies ==
  {[NoBody EXCEPT !.authMode = a] : a \in {Undefined, Cookie, Token}}
    \cup {[NoBody EXCEPT !.authMode = Token, !.errorRate = <<"1", "0", "0">>],
          [NoBody EXCEPT !.authMode = Cookie, !.errorRate = <<"5", "0">>,
                         !.delay_reserve = <<"5">>]}

\* the credentials a request carries: the username cookie, the token query
\* parameter and the token form field
Cred(c, q, b) == [cookie |-> c, qtoken |-> q, btoken |-> b]

Anonymous == Cred(Undefined, Undefined, Undefined)

CookieCredentials == {Anonymous, Cred(User1, Undefined, Undefined)}

TokenA3 == generateToken(User1, <<"a", "3">>)
Token7F == generateToken(User1, <<"7", "f">>)
TokenAdmin == generateToken(Admin, <<"a", "3">>)

Credentials ==
  CookieCredentials
    \cup {Cred(Undefined, t, Undefined) : t \in {TokenA3, Token7F, TokenAdmin}}
    \cup {Cred(Undefined, Undefined, TokenA3),
          Cred(Undefined, TokenAdmin, TokenA3),
          Cred(Admin, TokenA3, Undefined)}

FewBookings ==
  {Booking(Guest, Suite, Mar10, Two), Booking(Guest, Suite, Mar11, One)}

Request(m, p, cr, b) ==
  [method |-> m, path |-> p, cookie |-> cr.cookie,
   query |-> [token |-> cr.qtoken], body |-> [b EXCEPT !.token = cr.btoken],
   params |-> [id |-> Undefined, filename |-> Undefined]]

\* the catalogs the service can start with: none when rooms.json cannot be
\* read (the catch branch), otherwise the room ids of the file; and the ids
\* requests ask for
Catalogs == {{}, {<<"1", "0", "1">>}}
RoomParams == {<<"1", "0", "1">>, <<"9", "9", "9">>}

\* a request for GET /rooms/:id
RoomRequest(cr, id) ==
  [Request("GET", "/rooms/:id", cr, NoBody) EXCEPT !.params.id = id]

(***************************************************************************)
(* State                                                                   *)
(***************************************************************************)
VARIABLES
  reservations,    \* the reservation store, oldest record first
  tokenStore,      \* token -> [username, createdAt]
  cookieSessions,  \* username -> time last seen
  config,          \* [delays, errorRate, authMode]
  suspended,       \* the requests waiting in a latency delay (a bag)
  last,            \* the response sent last, with the request it answers
  now,             \* the wall clock, hours since 1970-01-01T00:00Z
  tz,              \* the offset of the process's time zone, hours east of UTC
  issued,          \* requests received so far
  minted,          \* history: the tokens generateToken has returned so far
  relogged,        \* history: the users who have logged in since the
                   \* authentication mode was last changed
  roomTypes,       \* the room ids of the catalog loaded at startup
  exited           \* the process has ended on an unhandled rejection

vars ==
  <<reservations, tokenStore, cookieSessions, config, suspended, last, now, tz,
    issued, minted, relogged, roomTypes, exited>>

MaxReservations == 2000

Noon10 == MakeDay(2026, 3, 10) * HoursPerDay + 12

\* the last time the model's clock reaches
LastNoon == Noon10 + HoursPerDay

TimeZones == {0 - 5, 0}

EmptyMap == [x \in {} |-> 0]

NoResponse ==
  [seq |-> 0, method |-> "", path |-> "", cookie |-> Undefined,
   qtoken |-> Undefined, btoken |-> Undefined, user |-> Undefined,
   token |-> Undefined, status |-> 0, page |-> "", location |-> "",
   linkToken |-> Undefined, setCookie |-> Undefined, links |-> {},
   rows |-> <<>>, id |-> Undefined]

InitConfig ==
  [delays |-> [login |-> 0, menu |-> 0, reserve |-> 0, overview |-> 0, rooms |-> 0],
   errorRate |-> 0,
   authMode |-> Cookie]

\* the state after construction, but for the store and the configuration,
\* of a service started without rooms.json (no route of the specifications
\* that start here reads the catalog)
InitOther ==
  /\ roomTypes = {}
  /\ exited = FALSE
  /\ tokenStore = EmptyMap
  /\ cookieSessions = EmptyMap
  /\ suspended = EmptyBag
  /\ last = NoResponse
  /\ now = Noon10
  /\ issued = 0
  /\ minted = {}
  /\ relogged = {}

Init ==
  /\ reservations = <<>>
  /\ config = InitConfig
  /\ tz \in TimeZones
  /\ InitOther

(***************************************************************************)
(* Registries                                                              *)
(***************************************************************************)
\* a resolver that trusts the username a token carries in its first part and
\* never consults the registry; the lookup property of the token mode tells
\* it from getUserFromToken
getUserFromTokenUnchecked(token, store) ==
  IF ~Truthy(token) THEN Undefined ELSE token[1][2]

getUserFromToken(token, store) ==
  IF ~Truthy(token) THEN Undefined
  ELSE IF token \in DOMAIN store THEN store[token].username
  ELSE Undefined

\* a registry that keeps the newest token only; the property of the token
\* login tells it from storeToken
storeTokenAlone(token, username, store, t) ==
  [k \in {token} |-> [username |-> username, createdAt |-> t]]

storeToken(token, username, store, t) ==
  [k \in DOMAIN store \cup {token} |->
     IF k = token THEN [username |-> username, createdAt |-> t] ELSE store[k]]

\* a mode switch that keeps the tokens registered; the reset property of the
\* mode switch tells it from clearAllTokens
clearAllTokensKept(store) == store

clearAllTokens(store) == EmptyMap

\* an invalidation that removes every token of the username of the token
\* presented; the frame property of the logout tells it from invalidateToken
invalidateTokenOfUser(token, store) ==
  IF Truthy(token) /\ token \in DOMAIN store
    THEN [k \in {x \in DOMAIN store : store[x].username # store[token].username}
            |-> store[k]]
    ELSE store

\* a logout that leaves the token registered; the property of the token
\* logout tells it from invalidateToken
invalidateTokenKept(token, store) == store

invalidateToken(token, store) ==
  IF Truthy(token) /\ token \in DOMAIN store
    THEN [k \in DOMAIN store \ {token} |-> store[k]]
    ELSE store

\* a refresh that only touches the entries the registry already has; the
\* property of the session upsert tells it from updateCookieSession
updateCookieSessionKnown(username, sessions, t) ==
  [k \in DOMAIN sessions |-> IF k = username THEN t ELSE sessions[k]]

updateCookieSession(username, sessions, t) ==
  [k \in DOMAIN sessions \cup {username} |-> IF k = username THEN t ELSE sessions[k]]

\* a removal that leaves the registry as it is; the property of the logout
\* in cookie mode tells it from removeCookieSession
removeCookieSessionKept(username, sessions) == sessions

removeCookieSession(username, sessions) ==
  IF Truthy(username) /\ username \in DOMAIN sessions
    THEN [k \in DOMAIN sessions \ {username} |-> sessions[k]]
    ELSE sessions

\* a clearing that leaves the session registry as it is; the property of the
\* inactive registry tells it from clearAllCookieSessions
clearAllCookieSessionsKept(sessions) == sessions

clearAllCookieSessions(sessions) == EmptyMap

\* the target of a link or redirect: the path and the token parameter added
makeLink(path, token, cfg) ==
  IF cfg.authMode = Token /\ Truthy(token)
    THEN [path |-> path, token |-> token]
    ELSE [path |-> path, token |-> Undefined]

(***************************************************************************)
(* Middleware                                                              *)
(***************************************************************************)
\* an identity middleware that accepts a username cookie only when the
\* session registry has an entry for it; the property of the verbatim cookie
\* tells it from AuthMiddleware
AuthMiddlewareKnownOnly(req) ==
  IF config.authMode = Cookie THEN
    [user |-> IF req.cookie \in DOMAIN cookieSessions THEN req.cookie ELSE Undefined,
     token |-> Undefined,
     sessions |-> IF Truthy(req.cookie)
                    THEN updateCookieSession(req.cookie, cookieSessions, now)
                    ELSE cookieSessions]
  ELSE IF config.authMode = Token THEN
    LET token == IF Truthy(req.query.token) THEN req.query.token
                 ELSE IF Truthy(req.body.token) THEN req.body.token
                 ELSE Undefined
    IN  [user |-> getUserFromToken(token, tokenStore), token |-> token,
         sessions |-> cookieSessions]
  ELSE [user |-> Undefined, token |-> Undefined, sessions |-> cookieSessions]

\* an identity middleware that falls back to the username cookie when the
\* token of a request resolves to nobody; the property of the exclusive
\* modes tells it from AuthMiddleware
AuthMiddlewareFallback(req) ==
  IF config.authMode = Cookie THEN
    [user |-> req.cookie, token |-> Undefined,
     sessions |-> IF Truthy(req.cookie)
                    THEN updateCookieSession(req.cookie, cookieSessions, now)
                    ELSE cookieSessions]
  ELSE IF config.authMode = Token THEN
    LET token == IF Truthy(req.query.token) THEN req.query.token
                 ELSE IF Truthy(req.body.token) THEN req.body.token
                 ELSE Undefined
        user == getUserFromToken(token, tokenStore)
    IN  [user |-> IF Truthy(user) THEN user ELSE req.cookie, token |-> token,
         sessions |-> cookieSessions]
  ELSE [user |-> Undefined, token |-> Undefined, sessions |-> cookieSessions]

\* the identity middleware: the user and token attached to the request and
\* the session registry it leaves
AuthMiddleware(req) ==
  IF config.authMode = Cookie THEN
    [user |-> req.cookie, token |-> Undefined,
     sessions |-> IF Truthy(req.cookie)
                    THEN updateCookieSession(req.cookie, cookieSessions, now)
                    ELSE cookieSessions]
  ELSE IF config.authMode = Token THEN
    LET token == IF Truthy(req.query.token) THEN req.query.token
                 ELSE IF Truthy(req.body.token) THEN req.body.token
                 ELSE Undefined
    IN  [user |-> getUserFromToken(token, tokenStore), token |-> token,
         sessions |-> cookieSessions]
  ELSE [user |-> Undefined, token |-> Undefined, sessions |-> cookieSessions]

\* the chaos middleware: whether it ends the request with the simulated 500
\* a chaos middleware that spares no path, the configuration routes included;
\* the exemption property tells it from ChaosFails
ChaosFailsAnyPath(req, rnd) ==
  /\ config.errorRate > 0
  /\ rnd < config.errorRate

\* a chaos middleware that fails the draws at or above the rate instead of
\* those below it; the property of the two extreme rates tells it from
\* ChaosFails
ChaosFailsAbove(req, rnd) ==
  /\ req.path # "/config"
  /\ config.errorRate > 0
  /\ rnd >= config.errorRate

ChaosFails(req, rnd) ==
  /\ req.path # "/config"
  /\ config.errorRate > 0
  /\ rnd < config.errorRate

NoLink == [path |-> "", token |-> Undefined]
PlainLink(path) == [path |-> path, token |-> Undefined]

\* the links of the page with this title or heading, as served to a request
\* with this token: those the handler writes and the one the layout adds
PageLinks(page, token, cfg) ==
  IF page = "Main Menu"
    THEN {makeLink("/rooms", token, cfg), makeLink("/reserve", token, cfg),
          makeLink("/overview", token, cfg), PlainLink("/logout"),
          PlainLink("/config")}
  ELSE IF page \in {"Missing Information", "Invalid Date Format", "Invalid Date",
                    "Room Unavailable"}
    THEN {makeLink("/reserve", token, cfg), PlainLink("/config")}
  ELSE IF page \in {"Login Failed", "Configuration Updated", "Workshop Config"}
    THEN {PlainLink("/"), PlainLink("/config")}
  ELSE IF page = "Login"
    THEN {PlainLink("/login"), PlainLink("/config")}
  ELSE IF page = "Our Rooms"
    THEN {makeLink("/rooms/:id", token, cfg) : id \in roomTypes}
           \cup {makeLink("/menu", token, cfg), PlainLink("/config")}
  ELSE IF page = "Room Details"
    THEN {makeLink("/reserve", token, cfg), makeLink("/rooms", token, cfg),
          PlainLink("/config")}
  ELSE IF page \in {"Make Reservation", "Overview"}
    THEN {makeLink("/reserve", token, cfg), makeLink("/menu", token, cfg),
          PlainLink("/config")}
  ELSE {}

Response(req, auth, status, page, link, setCookie) ==
  [seq |-> last.seq + 1, method |-> req.method, path |-> req.path,
   cookie |-> req.cookie, qtoken |-> req.query.token, btoken |-> req.body.token,
   user |-> auth.user, token |-> auth.token, status |-> status, page |-> page,
   location |-> link.path, linkToken |-> link.token, setCookie |-> setCookie,
   links |-> PageLinks(page, auth.token, config), rows |-> <<>>,
   id |-> req.params.id]

ChaosResponse(req, auth) ==
  Response(req, auth, 500, "500 Internal Server Error", NoLink, Undefined)

Suspend(req, auth, ms) ==
  [req |-> req, user |-> auth.user, token |-> auth.token, delay |-> ms]

(***************************************************************************)
(* The reservation store                                                   *)
(***************************************************************************)
\* the availability check with closed intervals, under which a stay that
\* begins on another's checkout day conflicts; the overlap property tells it
\* from isRoomAvailable
isRoomAvailableClosed(roomName, checkInDate, nights, store) ==
  LET newStart == DateParse(checkInDate)
      newEnd == NumAdd(newStart, NumMul(nights, Num(HoursPerDay)))
      roomReservations == SelectSeq(store, LAMBDA r : r.room = roomName)
  IN  \A k \in 1..Len(roomReservations) :
        LET r == roomReservations[k]
            rStart == DateParse(r.checkIn)
            rEnd == NumAdd(rStart, Num(r.nights * HoursPerDay))
        IN  newStart.nan \/ newEnd.nan \/ newStart.v > rEnd.v \/ newEnd.v < rStart.v

isRoomAvailable(roomName, checkInDate, nights, store) ==
  LET newStart == DateParse(checkInDate)
      newEnd == NumAdd(newStart, NumMul(nights, Num(HoursPerDay)))
      roomReservations == SelectSeq(store, LAMBDA r : r.room = roomName)
  IN  \A k \in 1..Len(roomReservations) :
        LET r == roomReservations[k]
            rStart == DateParse(r.checkIn)
            rEnd == NumAdd(rStart, Num(r.nights * HoursPerDay))
        IN  ~(NumLt(newStart, rEnd) /\ NumGt(newEnd, rStart))

\* the check-in date lies before today's local midnight
InThePast(checkIn, t, z) == NumLt(DateParse(checkIn), Num(LocalMidnight(t, z)))

\* the checks with the availability check ahead of the past-date check; the
\* property of the check order tells it from ReserveOutcome
ReserveOutcomeRoomFirst(body, store, t, z) ==
  IF ~Truthy(body.guest) \/ ~Truthy(body.room) \/ ~Truthy(body.checkIn)
    THEN "Missing Information"
  ELSE IF ~isValidDate(body.checkIn, z) THEN "Invalid Date Format"
  ELSE IF ~isRoomAvailable(body.room, body.checkIn, Number(body.nights), store)
    THEN "Room Unavailable"
  ELSE IF InThePast(body.checkIn, t, z) THEN "Invalid Date"
  ELSE "accepted"

\* the outcome of the checks of POST /reserve, in the handler's order: the
\* heading of the error page, or "accepted" when the record is to be appended
ReserveOutcome(body, store, t, z) ==
  IF ~Truthy(body.guest) \/ ~Truthy(body.room) \/ ~Truthy(body.checkIn)
    THEN "Missing Information"
  ELSE IF ~isValidDate(body.checkIn, z) THEN "Invalid Date Format"
  ELSE IF InThePast(body.checkIn, t, z) THEN "Invalid Date"
  ELSE IF ~isRoomAvailable(body.room, body.checkIn, Number(body.nights), store)
    THEN "Room Unavailable"
  ELSE "accepted"

OutcomeStatus(outcome) ==
  IF outcome = "accepted" THEN 302
  ELSE IF outcome = "Room Unavailable" THEN 409
  ELSE 400

\* the record reservations.push() appends
NewReservation(body, user, store, t, z) ==
  [id |-> Len(store) + 1,
   guest |-> escapeHtml(body.guest),
   room |-> escapeHtml(body.room),
   checkIn |-> body.checkIn,
   nights |-> NumberOr(Number(body.nights), 1),
   date |-> (t + z) % HoursPerDay,
   bookedBy |-> user]

\* an eviction that drops the newest record instead of the oldest; the
\* eviction property tells it from Truncate
TruncateNewest(store) ==
  IF Len(store) > MaxReservations THEN SubSeq(store, 1, MaxReservations) ELSE store

\* if (reservations.length > 2000) reservations.shift()
Truncate(store) == IF Len(store) > MaxReservations THEN Tail(store) ELSE store

\* a handler that appends before it checks; the property of the refused
\* requests tells it from StoreAfter
StoreAfterAppendFirst(outcome, store, record) == Truncate(Append(store, record))

\* the store the handler of POST /reserve leaves
StoreAfter(outcome, store, record) ==
  IF outcome = "accepted" THEN Truncate(Append(store, record)) ELSE store

(***************************************************************************)
(* Login                                                                   *)
(***************************************************************************)
UserPrefix == <<"u", "s", "e", "r">>
PasswordPrefix == <<"P", "a", "s", "s", "w", "o", "r", "d">>

\* username.match(/^user(\d+)$/): the digits captured, or Undefined
UserMatch(username) ==
  IF /\ Len(username) > Len(UserPrefix)
     /\ SubSeq(username, 1, Len(UserPrefix)) = UserPrefix
     /\ AllDigits(SubSeq(username, Len(UserPrefix) + 1, Len(username)))
    THEN SubSeq(username, Len(UserPrefix) + 1, Len(username))
    ELSE Undefined

\* a rule that takes any number after Password; the property of the
\* credential rule tells it from ValidLogin
ValidLoginAnyNumber(username, password) ==
  \/ username = Admin /\ password = PassAdmin
  \/ /\ UserMatch(username) # Undefined
     /\ password # Undefined
     /\ Len(password) > Len(PasswordPrefix)
     /\ SubSeq(password, 1, Len(PasswordPrefix)) = PasswordPrefix
     /\ AllDigits(SubSeq(password, Len(PasswordPrefix) + 1, Len(password)))

ValidLogin(username, password) ==
  \/ username = Admin /\ password = PassAdmin
  \/ /\ UserMatch(username) # Undefined
     /\ password = PasswordPrefix \o UserMatch(username)

(***************************************************************************)
(* Requests                                                                *)
(***************************************************************************)
Respond(resp) == last' = resp

CanReceive == issued < MaxRequests /\ ~exited

\* GET / up to its await sleep(config.delays.login): the route asks for no
\* identity before it sleeps
ReceiveLoginPage(req, rnd) ==
  /\ CanReceive
  /\ req.method = "GET" /\ req.path = "/"
  /\ issued' = issued + 1
  /\ LET auth == AuthMiddleware(req)
     IN  /\ cookieSessions' = auth.sessions
         /\ IF ChaosFails(req, rnd)
              THEN /\ Respond(ChaosResponse(req, auth))
                   /\ UNCHANGED suspended
              ELSE /\ suspended' =
                        suspended (+) SetToBag({Suspend(req, auth, config.delays.login)})
                   /\ UNCHANGED last
  /\ UNCHANGED <<reservations, tokenStore, config, now, tz, roomTypes, exited, minted, relogged>>

\* GET / after the delay: a caller with an identity is sent to the menu, any
\* other gets the login page
ResumeLoginPage(s) ==
  /\ BagIn(s, suspended)
  /\ s.req.method = "GET" /\ s.req.path = "/"
  /\ suspended' = suspended (-) SetToBag({s})
  /\ LET auth == [user |-> s.user, token |-> s.token]
     IN  IF Truthy(s.user)
           THEN Respond(Response(s.req, auth, 302, "",
                                 makeLink("/menu", s.token, config), Undefined))
           ELSE Respond(Response(s.req, auth, 200, "Login", NoLink, Undefined))
  /\ UNCHANGED <<reservations, tokenStore, cookieSessions, config, now, tz, roomTypes, exited,
                 issued, minted, relogged>>

\* POST /login up to its await sleep(100)
ReceiveLogin(req, rnd) ==
  /\ CanReceive
  /\ req.method = "POST" /\ req.path = "/login"
  /\ issued' = issued + 1
  /\ LET auth == AuthMiddleware(req)
     IN  /\ cookieSessions' = auth.sessions
         /\ IF ChaosFails(req, rnd)
              THEN /\ Respond(ChaosResponse(req, auth))
                   /\ UNCHANGED suspended
              ELSE /\ suspended' = suspended (+) SetToBag({Suspend(req, auth, 100)})
                   /\ UNCHANGED last
  /\ UNCHANGED <<reservations, tokenStore, config, now, tz, roomTypes, exited, minted, relogged>>

\* crypto.randomBytes(16) is taken never to return the same bytes twice: of
\* the values of RandomHex no token carries yet, the first in RandomOrder
FreshRandom(randomPart) ==
  /\ \A t \in minted : t[3] # randomPart
  /\ \E k \in 1..Len(RandomOrder) :
       /\ RandomOrder[k] = randomPart
       /\ \A j \in 1..(k - 1) : \E t \in minted : t[3] = RandomOrder[j]

\* POST /login after the delay, for a form that carries a username
ResumeLogin(s, randomPart) ==
  /\ BagIn(s, suspended)
  /\ s.req.path = "/login"
  /\ s.req.body.username # Undefined
  /\ suspended' = suspended (-) SetToBag({s})
  /\ LET username == s.req.body.username
         password == s.req.body.password
         auth == [user |-> s.user, token |-> s.token]
     IN  IF ValidLogin(username, password) /\ config.authMode = Cookie
           THEN /\ cookieSessions' = updateCookieSession(username, cookieSessions, now)
                /\ Respond(Response(s.req, auth, 302, "", PlainLink("/menu"), username))
                /\ relogged' = relogged \cup {username}
                /\ UNCHANGED <<tokenStore, minted>>
         ELSE IF ValidLogin(username, password) /\ config.authMode = Token
           THEN LET token == generateToken(username, randomPart)
                IN  /\ FreshRandom(randomPart)
                    /\ tokenStore' = storeToken(token, username, tokenStore, now)
                    /\ minted' = minted \cup {token}
                    /\ relogged' = relogged \cup {username}
                    /\ Respond(Response(s.req, auth, 302, "",
                                        [path |-> "/menu", token |-> token], Undefined))
                    /\ UNCHANGED cookieSessions
         ELSE /\ Respond(Response(s.req, auth, 200, "Login Failed", NoLink, Undefined))
              /\ UNCHANGED <<tokenStore, cookieSessions, minted, relogged>>
  /\ UNCHANGED <<reservations, config, now, tz, roomTypes, exited, issued>>

\* what becomes of the promise an async handler rejects: the error handler
\* of Express 5 answers with status 500; Express 4 drops the promise, and the
\* unhandled rejection either ends the process (the default of Node 15 and
\* later) or is only reported, leaving the request unanswered
ThrowOutcomes == {"answered", "unanswered", "exit"}

\* POST /login after the delay, for a form without a username:
\* username.match(...) throws a TypeError inside the async handler.  When
\* the process ends, the requests waiting in their delays are lost with it
\* and no request is received any more.
ResumeLoginThrows(s, outcome) ==
  /\ BagIn(s, suspended)
  /\ s.req.path = "/login"
  /\ s.req.body.username = Undefined
  /\ suspended' = IF outcome = "exit" THEN EmptyBag
                  ELSE suspended (-) SetToBag({s})
  /\ exited' = (outcome = "exit")
  /\ IF outcome = "answered"
       THEN Respond(Response(s.req, [user |-> s.user, token |-> s.token], 500,
                             "TypeError", NoLink, Undefined))
       ELSE UNCHANGED last
  /\ UNCHANGED <<reservations, tokenStore, cookieSessions, config, now, tz,
                 roomTypes, issued, minted, relogged>>

\* a logout route mounted before the chaos middleware: the handler has acted
\* when the chaos check fails the request; the property of the pipeline
\* order tells it from Logout
LogoutBeforeChaos(req, rnd) ==
  /\ CanReceive
  /\ req.method = "GET" /\ req.path = "/logout"
  /\ issued' = issued + 1
  /\ LET auth == AuthMiddleware(req)
     IN  /\ cookieSessions' = removeCookieSession(auth.user, auth.sessions)
         /\ tokenStore' = IF config.authMode = Token /\ Truthy(auth.token)
                            THEN invalidateToken(auth.token, tokenStore)
                            ELSE tokenStore
         /\ IF ChaosFails(req, rnd)
              THEN Respond(ChaosResponse(req, auth))
              ELSE Respond(Response(req, auth, 302, "", PlainLink("/"), <<>>))
  /\ UNCHANGED <<reservations, config, suspended, now, tz, roomTypes, exited, minted, relogged>>

\* GET /logout
Logout(req, rnd) ==
  /\ CanReceive
  /\ req.method = "GET" /\ req.path = "/logout"
  /\ issued' = issued + 1
  /\ LET auth == AuthMiddleware(req)
     IN  IF ChaosFails(req, rnd)
           THEN /\ cookieSessions' = auth.sessions
                /\ Respond(ChaosResponse(req, auth))
                /\ UNCHANGED tokenStore
           ELSE /\ cookieSessions' = removeCookieSession(auth.user, auth.sessions)
                /\ tokenStore' = IF config.authMode = Token /\ Truthy(auth.token)
                                   THEN invalidateToken(auth.token, tokenStore)
                                   ELSE tokenStore
                /\ Respond(Response(req, auth, 302, "", PlainLink("/"), <<>>))
  /\ UNCHANGED <<reservations, config, suspended, now, tz, roomTypes, exited, minted, relogged>>

\* GET /menu up to its await sleep(config.delays.menu)
ReceiveMenu(req, rnd) ==
  /\ CanReceive
  /\ req.method = "GET" /\ req.path = "/menu"
  /\ issued' = issued + 1
  /\ LET auth == AuthMiddleware(req)
     IN  /\ cookieSessions' = auth.sessions
         /\ IF ChaosFails(req, rnd)
              THEN /\ Respond(ChaosResponse(req, auth))
                   /\ UNCHANGED suspended
            ELSE IF ~Truthy(auth.user)
              THEN /\ Respond(Response(req, auth, 302, "", PlainLink("/"), Undefined))
                   /\ UNCHANGED suspended
            ELSE /\ suspended' =
                      suspended (+) SetToBag({Suspend(req, auth, config.delays.menu)})
                 /\ UNCHANGED last
  /\ UNCHANGED <<reservations, tokenStore, config, now, tz, roomTypes, exited, minted, relogged>>

\* GET /menu after the delay: the menu page
ResumeMenu(s) ==
  /\ BagIn(s, suspended)
  /\ s.req.path = "/menu"
  /\ suspended' = suspended (-) SetToBag({s})
  /\ Respond(Response(s.req, [user |-> s.user, token |-> s.token], 200,
                       "Main Menu", NoLink, Undefined))
  /\ UNCHANGED <<reservations, tokenStore, cookieSessions, config, now, tz, roomTypes, exited,
                 issued, minted, relogged>>

\* POST /reserve up to its await sleep(config.delays.reserve)
ReceiveReserve(req, rnd) ==
  /\ CanReceive
  /\ req.method = "POST" /\ req.path = "/reserve"
  /\ issued' = issued + 1
  /\ LET auth == AuthMiddleware(req)
     IN  /\ cookieSessions' = auth.sessions
         /\ IF ChaosFails(req, rnd)
              THEN /\ Respond(ChaosResponse(req, auth))
                   /\ UNCHANGED suspended
            ELSE IF ~Truthy(auth.user)
              THEN /\ Respond(Response(req, auth, 302, "", PlainLink("/"), Undefined))
                   /\ UNCHANGED suspended
            ELSE /\ suspended' =
                      suspended (+) SetToBag({Suspend(req, auth, config.delays.reserve)})
                 /\ UNCHANGED last
  /\ UNCHANGED <<reservations, tokenStore, config, now, tz, roomTypes, exited, minted, relogged>>

\* a handler that resolves the identity of the request again after the
\* delay and redirects to the login page when it no longer resolves; the
\* property of the bookings answered after a logout tells it from
\* ResumeReserve
ResumeReserveRevalidating(s) ==
  /\ BagIn(s, suspended)
  /\ s.req.method = "POST" /\ s.req.path = "/reserve"
  /\ suspended' = suspended (-) SetToBag({s})
  /\ LET body == s.req.body
         auth == [user |-> s.user, token |-> s.token]
         outcome == ReserveOutcome(body, reservations, now, tz)
         record == NewReservation(body, s.user, reservations, now, tz)
     IN  IF AuthMiddleware(s.req).user # s.user
           THEN /\ Respond(Response(s.req, auth, 302, "", PlainLink("/"), Undefined))
                /\ UNCHANGED reservations
           ELSE /\ reservations' = StoreAfter(outcome, reservations, record)
                /\ IF outcome = "accepted"
                     THEN Respond(Response(s.req, auth, 302, "",
                                           makeLink("/overview", s.token, config),
                                           Undefined))
                     ELSE Respond(Response(s.req, auth, OutcomeStatus(outcome),
                                           outcome, NoLink, Undefined))
  /\ UNCHANGED <<tokenStore, cookieSessions, config, now, tz, roomTypes, exited, issued, minted,
                 relogged>>

\* POST /reserve after the delay: the checks, the append and the eviction
ResumeReserve(s) ==
  /\ BagIn(s, suspended)
  /\ s.req.method = "POST" /\ s.req.path = "/reserve"
  /\ suspended' = suspended (-) SetToBag({s})
  /\ LET body == s.req.body
         auth == [user |-> s.user, token |-> s.token]
         outcome == ReserveOutcome(body, reservations, now, tz)
         record == NewReservation(body, s.user, reservations, now, tz)
     IN  /\ reservations' = StoreAfter(outcome, reservations, record)
         /\ IF outcome = "accepted"
              THEN Respond(Response(s.req, auth, 302, "",
                                    makeLink("/overview", s.token, config), Undefined))
              ELSE Respond(Response(s.req, auth, OutcomeStatus(outcome), outcome,
                                    NoLink, Undefined))
  /\ UNCHANGED <<tokenStore, cookieSessions, config, now, tz, roomTypes, exited, issued, minted,
                 relogged>>

\* a route whose delay blocks the process: no request is received while
\* another waits; the property of the concurrent requests tells it from
\* ReceiveGated
ReceiveGatedBlocking(req, rnd, ms) ==
  /\ CanReceive
  /\ suspended = EmptyBag
  /\ issued' = issued + 1
  /\ LET auth == AuthMiddleware(req)
     IN  /\ cookieSessions' = auth.sessions
         /\ IF ChaosFails(req, rnd)
              THEN /\ Respond(ChaosResponse(req, auth))
                   /\ UNCHANGED suspended
            ELSE IF ~Truthy(auth.user)
              THEN /\ Respond(Response(req, auth, 302, "", PlainLink("/"), Undefined))
                   /\ UNCHANGED suspended
            ELSE /\ suspended' = suspended (+) SetToBag({Suspend(req, auth, ms)})
                 /\ UNCHANGED last
  /\ UNCHANGED <<reservations, tokenStore, config, now, tz, roomTypes, exited, minted, relogged>>

\* a route that lets a caller without identity through to its delay and its
\* page; the property of the protected routes tells it from ReceiveGated
ReceiveGatedOpen(req, rnd, ms) ==
  /\ CanReceive
  /\ issued' = issued + 1
  /\ LET auth == AuthMiddleware(req)
     IN  /\ cookieSessions' = auth.sessions
         /\ IF ChaosFails(req, rnd)
              THEN /\ Respond(ChaosResponse(req, auth))
                   /\ UNCHANGED suspended
              ELSE /\ suspended' = suspended (+) SetToBag({Suspend(req, auth, ms)})
                   /\ UNCHANGED last
  /\ UNCHANGED <<reservations, tokenStore, config, now, tz, roomTypes, exited, minted, relogged>>

\* a route that requires an identity, up to its await sleep(ms): the
\* middleware, the redirect of a caller without identity, the suspension
ReceiveGated(req, rnd, ms) ==
  /\ CanReceive
  /\ issued' = issued + 1
  /\ LET auth == AuthMiddleware(req)
     IN  /\ cookieSessions' = auth.sessions
         /\ IF ChaosFails(req, rnd)
              THEN /\ Respond(ChaosResponse(req, auth))
                   /\ UNCHANGED suspended
            ELSE IF ~Truthy(auth.user)
              THEN /\ Respond(Response(req, auth, 302, "", PlainLink("/"), Undefined))
                   /\ UNCHANGED suspended
            ELSE /\ suspended' = suspended (+) SetToBag({Suspend(req, auth, ms)})
                 /\ UNCHANGED last
  /\ UNCHANGED <<reservations, tokenStore, config, now, tz, roomTypes, exited, minted, relogged>>

\* a page read after the delay: the page
ResumePage(s, page, rows) ==
  /\ BagIn(s, suspended)
  /\ suspended' = suspended (-) SetToBag({s})
  /\ Respond([Response(s.req, [user |-> s.user, token |-> s.token], 200, page,
                        NoLink, Undefined) EXCEPT !.rows = rows])
  /\ UNCHANGED <<reservations, tokenStore, cookieSessions, config, now, tz, roomTypes, exited,
                 issued, minted, relogged>>

\* GET /rooms
ReceiveRooms(req, rnd) ==
  /\ req.method = "GET" /\ req.path = "/rooms"
  /\ ReceiveGated(req, rnd, config.delays.rooms)

ResumeRooms(s) ==
  /\ s.req.path = "/rooms"
  /\ ResumePage(s, "Our Rooms", <<>>)

\* GET /rooms/:id up to its await sleep(config.delays.rooms): a caller with
\* an identity asking for an id the catalog does not have is sent to /rooms
ReceiveRoom(req, rnd) ==
  /\ req.method = "GET" /\ req.path = "/rooms/:id"
  /\ LET auth == AuthMiddleware(req)
     IN  IF /\ ~ChaosFails(req, rnd)
            /\ Truthy(auth.user)
            /\ req.params.id \notin roomTypes
           THEN /\ CanReceive
                /\ issued' = issued + 1
                /\ cookieSessions' = auth.sessions
                /\ Respond(Response(req, auth, 302, "",
                                    makeLink("/rooms", auth.token, config), Undefined))
                /\ UNCHANGED <<reservations, tokenStore, config, suspended, now,
                               tz, roomTypes, exited, minted, relogged>>
           ELSE ReceiveGated(req, rnd, config.delays.rooms)

ResumeRoom(s) ==
  /\ s.req.path = "/rooms/:id"
  /\ ResumePage(s, "Room Details", <<>>)

\* GET /reserve: the booking form
ReceiveReserveForm(req, rnd) ==
  /\ req.method = "GET" /\ req.path = "/reserve"
  /\ ReceiveGated(req, rnd, config.delays.reserve)

ResumeReserveForm(s) ==
  /\ s.req.method = "GET" /\ s.req.path = "/reserve"
  /\ ResumePage(s, "Make Reservation", <<>>)

\* Array.prototype.reverse()
Reverse(seq) == [i \in 1..Len(seq) |-> seq[Len(seq) + 1 - i]]

\* GET /overview: the reservations whose bookedBy is the caller
ReceiveOverview(req, rnd) ==
  /\ req.method = "GET" /\ req.path = "/overview"
  /\ ReceiveGated(req, rnd, config.delays.overview)

\* an overview that lists the whole store; the property of the overview
\* tells it from ResumeOverview
ResumeOverviewAll(s) ==
  /\ s.req.path = "/overview"
  /\ ResumePage(s, "Overview", Reverse(reservations))

\* GET /overview after the delay: the caller's records, the newest first
ResumeOverview(s) ==
  /\ s.req.path = "/overview"
  /\ ResumePage(s, "Overview",
                LET OfCaller(r) == r.bookedBy = s.user
                IN  Reverse(SelectSeq(reservations, OfCaller)))

\* GET /config: the configuration page
GetConfig(req, rnd) ==
  /\ CanReceive
  /\ req.method = "GET" /\ req.path = "/config"
  /\ issued' = issued + 1
  /\ LET auth == AuthMiddleware(req)
     IN  /\ cookieSessions' = auth.sessions
         /\ IF ChaosFails(req, rnd)
              THEN Respond(ChaosResponse(req, auth))
              ELSE Respond(Response(req, auth, 200, "Workshop Config", NoLink,
                                    Undefined))
  /\ UNCHANGED <<reservations, tokenStore, config, suspended, now, tz, roomTypes, exited, minted,
                 relogged>>

\* a configuration update that keeps the mode when the form names none;
\* the property of the forms without a mode tells it from NewConfig
NewConfigKeepsMode(body, cfg) ==
  [delays |-> [cfg.delays EXCEPT
                 !.login = NumberOr(Number(body.delay_login), 0),
                 !.reserve = NumberOr(Number(body.delay_reserve), 0),
                 !.rooms = NumberOr(Number(body.delay_rooms), 0)],
   errorRate |-> NumberOr(Number(body.errorRate), 0),
   authMode |-> IF Truthy(body.authMode) THEN body.authMode ELSE cfg.authMode]

\* the configuration POST /config leaves
NewConfig(body, cfg) ==
  [delays |-> [cfg.delays EXCEPT
                 !.login = NumberOr(Number(body.delay_login), 0),
                 !.reserve = NumberOr(Number(body.delay_reserve), 0),
                 !.rooms = NumberOr(Number(body.delay_rooms), 0)],
   errorRate |-> NumberOr(Number(body.errorRate), 0),
   authMode |-> IF Truthy(body.authMode) THEN body.authMode ELSE Cookie]

\* a POST /config whose mode switch clears the reservations with the
\* registries; the frame property of the store tells it from PostConfig
PostConfigWipesStore(req, rnd) ==
  /\ CanReceive
  /\ req.method = "POST" /\ req.path = "/config"
  /\ issued' = issued + 1
  /\ \E defined \in BodyDefined(req.body) :
     LET auth == AuthMiddleware(req)
         new == NewConfig(req.body, config)
     IN  IF ~defined
           THEN /\ cookieSessions' = auth.sessions
                /\ Respond(Response(req, auth, 500, "TypeError", NoLink,
                                    Undefined))
                /\ UNCHANGED <<reservations, config, tokenStore, relogged>>
         ELSE IF config.authMode # new.authMode
           THEN /\ config' = new
                /\ reservations' = <<>>
                /\ tokenStore' = clearAllTokens(tokenStore)
                /\ cookieSessions' = clearAllCookieSessions(auth.sessions)
                /\ relogged' = {}
                /\ Respond(Response(req, auth, 200, "Configuration Updated",
                                    NoLink, <<>>))
           ELSE /\ config' = new
                /\ reservations' = reservations
                /\ tokenStore' = tokenStore
                /\ cookieSessions' = auth.sessions
                /\ relogged' = relogged
                /\ Respond(Response(req, auth, 302, "", PlainLink("/config"),
                                    Undefined))
  /\ UNCHANGED <<suspended, now, tz, roomTypes, exited, minted>>

\* POST /config.  The handler is synchronous: when req.body is undefined the
\* read of its first field (line 815) throws before anything is assigned,
\* and Express answers 500 with the configuration and the registries as
\* they were.
PostConfig(req, rnd) ==
  /\ CanReceive
  /\ req.method = "POST" /\ req.path = "/config"
  /\ issued' = issued + 1
  /\ \E defined \in BodyDefined(req.body) :
     LET auth == AuthMiddleware(req)
         new == NewConfig(req.body, config)
     IN  IF ChaosFails(req, rnd)
           THEN /\ cookieSessions' = auth.sessions
                /\ Respond(ChaosResponse(req, auth))
                /\ UNCHANGED <<config, tokenStore, relogged>>
         ELSE IF ~defined
           THEN /\ cookieSessions' = auth.sessions
                /\ Respond(Response(req, auth, 500, "TypeError", NoLink,
                                    Undefined))
                /\ UNCHANGED <<config, tokenStore, relogged>>
         ELSE IF config.authMode # new.authMode
           THEN /\ config' = new
                /\ tokenStore' = clearAllTokens(tokenStore)
                /\ cookieSessions' = clearAllCookieSessions(auth.sessions)
                /\ relogged' = {}
                /\ Respond(Response(req, auth, 200, "Configuration Updated",
                                    NoLink, <<>>))
           ELSE /\ config' = new
                /\ tokenStore' = tokenStore
                /\ cookieSessions' = auth.sessions
                /\ relogged' = relogged
                /\ Respond(Response(req, auth, 302, "", PlainLink("/config"),
                                    Undefined))
  /\ UNCHANGED <<reservations, suspended, now, tz, roomTypes, exited, minted>>

\* the file names asked of GET /images/:filename, and the test of line 33,
\* /\.(jpg|jpeg|png|gif|webp)$/i: the name ends with a dot and one of the
\* five extensions, in either case of letters
ImageNames ==
  {<<"a", ".", "p", "n", "g">>, <<"a", ".", "J", "P", "E", "G">>,
   <<"x", ".", "t", "x", "t">>, <<"p", "n", "g">>}

ImageExtensions ==
  {<<"j", "p", "g">>, <<"j", "p", "e", "g">>, <<"p", "n", "g">>,
   <<"g", "i", "f">>, <<"w", "e", "b", "p">>}

LowerCase(ch) ==
  CASE ch = "J" -> "j" [] ch = "P" -> "p" [] ch = "E" -> "e" [] ch = "G" -> "g"
    [] ch = "N" -> "n" [] ch = "I" -> "i" [] ch = "F" -> "f" [] ch = "W" -> "w"
    [] ch = "B" -> "b" [] OTHER -> ch

IsImageName(name) ==
  \E ext \in ImageExtensions :
    LET n == Len(name)
        k == Len(ext)
    IN  /\ n > k
        /\ name[n - k] = "."
        /\ \A i \in 1..k : LowerCase(name[n - k + i]) = ext[i]

ImageRequest(cr, name) ==
  [Request("GET", "/images/:filename", cr, NoBody) EXCEPT !.params.filename = name]

\* GET /images/:filename.  The route is mounted ahead of the identity and
\* the chaos middleware: it resolves no identity, refreshes no session and
\* is never failed by the chaos check.  Whether the file is in the image
\* directory belongs to the deployment (exists).
GetImage(req, exists) ==
  /\ CanReceive
  /\ req.method = "GET" /\ req.path = "/images/:filename"
  /\ issued' = issued + 1
  /\ LET none == [user |-> Undefined, token |-> Undefined]
     IN  IF ~IsImageName(req.params.filename)
           THEN Respond(Response(req, none, 404, "Not an image", NoLink, Undefined))
         ELSE IF exists
           THEN Respond(Response(req, none, 200, "", NoLink, Undefined))
           ELSE Respond(Response(req, none, 404, "Image not found", NoLink,
                                 Undefined))
  /\ UNCHANGED <<reservations, tokenStore, cookieSessions, config, suspended,
                 now, tz, roomTypes, exited, minted, relogged>>

\* the two files the layout refers to, under the static mounts /pico and
\* /public
StaticPaths == {"/pico/pico.min.css", "/public/TAD2026.png"}

\* GET of a file under /pico or /public.  express.static answers with the
\* file when the deployment has it (exists), ahead of the identity and the
\* chaos middleware; otherwise it passes the request on, through both
\* middleware, to the 404 of Express, no route matching.
GetStatic(req, exists, rnd) ==
  /\ CanReceive
  /\ req.method = "GET" /\ req.path \in StaticPaths
  /\ issued' = issued + 1
  /\ IF exists
       THEN /\ Respond(Response(req, [user |-> Undefined, token |-> Undefined],
                                200, "", NoLink, Undefined))
            /\ UNCHANGED cookieSessions
       ELSE LET auth == AuthMiddleware(req)
            IN  /\ cookieSessions' = auth.sessions
                /\ IF ChaosFails(req, rnd)
                     THEN Respond(ChaosResponse(req, auth))
                     ELSE Respond(Response(req, auth, 404, "Cannot GET", NoLink,
                                           Undefined))
  /\ UNCHANGED <<reservations, tokenStore, config, suspended, now, tz,
                 roomTypes, exited, minted, relogged>>

\* a day passes
Tick ==
  /\ now < LastNoon
  /\ now' = now + HoursPerDay
  /\ UNCHANGED <<reservations, tokenStore, cookieSessions, config, suspended,
                 last, tz, roomTypes, exited, issued, minted, relogged>>

\* the callers of the specifications with every route: one without
\* credentials, one with the cookie of User1, one with the first token of
\* User1 next to the cookie of Admin
FewCredentials ==
  {Anonymous, Cred(User1, Undefined, Undefined), Cred(Admin, TokenA3, Undefined)}

Next ==
  \/ \E c \in FewCredentials, rnd \in RandomPercent :
       ReceiveLoginPage(Request("GET", "/", c, NoBody), rnd)
  \/ \E s \in BagToSet(suspended) : ResumeLoginPage(s)
  \/ \E c \in CookieCredentials, b \in LoginBodies, rnd \in RandomPercent :
       ReceiveLogin(Request("POST", "/login", c, b), rnd)
  \/ \E s \in BagToSet(suspended), h \in RandomHex : ResumeLogin(s, h)
  \/ \E s \in BagToSet(suspended), o \in ThrowOutcomes : ResumeLoginThrows(s, o)
  \/ \E c \in Credentials, rnd \in RandomPercent :
       Logout(Request("GET", "/logout", c, NoBody), rnd)
  \/ \E c \in Credentials, b \in FewBookings, rnd \in RandomPercent :
       ReceiveReserve(Request("POST", "/reserve", c, b), rnd)
  \/ \E s \in BagToSet(suspended) : ResumeReserve(s)
  \/ \E c \in Credentials, rnd \in RandomPercent :
       ReceiveMenu(Request("GET", "/menu", c, NoBody), rnd)
  \/ \E s \in BagToSet(suspended) : ResumeMenu(s)
  \/ \E c \in CookieCredentials, rnd \in RandomPercent :
       GetConfig(Request("GET", "/config", c, NoBody), rnd)
  \/ \E c \in CookieCredentials, b \in ConfigBodies, rnd \in RandomPercent :
       PostConfig(Request("POST", "/config", c, b), rnd)
  \/ \E name \in ImageNames, exists \in BOOLEAN :
       GetImage(ImageRequest(Cred(User1, Undefined, Undefined), name), exists)
  \/ \E p \in StaticPaths, exists \in BOOLEAN, rnd \in RandomPercent :
       GetStatic(Request("GET", p, Cred(User1, Undefined, Undefined), NoBody),
                 exists, rnd)
  \/ Tick

Spec == Init /\ [][Next]_vars

LoginForm(u, p) == [NoBody EXCEPT !.username = u, !.password = p]

\* the steps of the routes that require an identity
NextGated ==
  \/ \E c \in FewCredentials, rnd \in RandomPercent :
       ReceiveMenu(Request("GET", "/menu", c, NoBody), rnd)
  \/ \E s \in BagToSet(suspended) : ResumeMenu(s)
  \/ \E c \in FewCredentials, rnd \in RandomPercent :
       ReceiveRooms(Request("GET", "/rooms", c, NoBody), rnd)
  \/ \E s \in BagToSet(suspended) : ResumeRooms(s)
  \/ \E c \in FewCredentials, id \in RoomParams, rnd \in RandomPercent :
       ReceiveRoom(RoomRequest(c, id), rnd)
  \/ \E s \in BagToSet(suspended) : ResumeRoom(s)
  \/ \E c \in FewCredentials, rnd \in RandomPercent :
       ReceiveReserveForm(Request("GET", "/reserve", c, NoBody), rnd)
  \/ \E s \in BagToSet(suspended) : ResumeReserveForm(s)
  \/ \E c \in FewCredentials, rnd \in RandomPercent :
       ReceiveOverview(Request("GET", "/overview", c, NoBody), rnd)
  \/ \E s \in BagToSet(suspended) : ResumeOverview(s)
  \/ \E c \in FewCredentials, b \in FewBookings, rnd \in RandomPercent :
       ReceiveReserve(Request("POST", "/reserve", c, b), rnd)
  \/ \E s \in BagToSet(suspended) : ResumeReserve(s)

\* every route
NextAll ==
  \/ NextGated
  \/ \E c \in FewCredentials, rnd \in RandomPercent :
       ReceiveLoginPage(Request("GET", "/", c, NoBody), rnd)
  \/ \E s \in BagToSet(suspended) : ResumeLoginPage(s)
  \/ \E b \in {LoginForm(User1, Pass1), LoginForm(User1, PassAdmin)},
        rnd \in RandomPercent :
       ReceiveLogin(Request("POST", "/login", Anonymous, b), rnd)
  \/ \E s \in BagToSet(suspended), h \in RandomHex : ResumeLogin(s, h)
  \/ \E c \in FewCredentials, rnd \in RandomPercent :
       Logout(Request("GET", "/logout", c, NoBody), rnd)
  \/ \E rnd \in RandomPercent :
       GetConfig(Request("GET", "/config", Anonymous, NoBody), rnd)
  \/ \E a \in {Cookie, Token}, rnd \in RandomPercent :
       PostConfig(Request("POST", "/config", Anonymous,
                          [NoBody EXCEPT !.authMode = a]), rnd)
  \/ \E name \in ImageNames, exists \in BOOLEAN :
       GetImage(ImageRequest(Cred(User1, Undefined, Undefined), name), exists)
  \/ \E p \in StaticPaths, exists \in BOOLEAN, rnd \in RandomPercent :
       GetStatic(Request("GET", p, Cred(User1, Undefined, Undefined), NoBody),
                 exists, rnd)

(***************************************************************************)
(* SpecStore: booking traffic in cookie mode, from an empty store, with    *)
(* every booking form of ReserveBodies, in the state a POST /config that   *)
(* sets the error rate to 50 and the booking delay to 5 ms leaves after    *)
(* construction: a draw of RandomPercent below 50 fails the request, a     *)
(* draw above lets it pass.                                                *)
(***************************************************************************)
InitStore ==
  /\ reservations = <<>>
  /\ tz \in TimeZones
  /\ InitOther
  /\ config = NewConfig([NoBody EXCEPT !.delay_reserve = <<"5">>,
                                        !.errorRate = <<"5", "0">>], InitConfig)

NextStore ==
  \/ \E c \in CookieCredentials, b \in ReserveBodies, rnd \in RandomPercent :
       ReceiveReserve(Request("POST", "/reserve", c, b), rnd)
  \/ \E s \in BagToSet(suspended) : ResumeReserve(s)
  \/ Tick

SpecStore == InitStore /\ [][NextStore]_vars

(***************************************************************************)
(* SpecToken: every route, from the state a POST /config that selects the  *)
(* token mode leaves after construction.                                   *)
(***************************************************************************)
InitToken ==
  /\ reservations = <<>>
  /\ config = NewConfig([NoBody EXCEPT !.authMode = Token], InitConfig)
  /\ tz \in TimeZones
  /\ InitOther

SpecToken == InitToken /\ [][Next]_vars

(***************************************************************************)
(* SpecFull: booking traffic on a store that is full but for FreeSlots     *)
(* places.  The records of the initial store are the ones User1 leaves by  *)
(* booking the Annex, one night each, for consecutive days from March 10   *)
(* on, at Noon10 in a process running on UTC.                              *)
(***************************************************************************)
FilledStore(size) ==
  [k \in 1..size |->
     [NewReservation(Booking(Guest, Annex, DateString(LocalDay(Noon10, 0) + k - 1), One),
                     User1, <<>>, Noon10, 0)
        EXCEPT !.id = k]]

FullBookings ==
  {Booking(Guest, r, c, One) : r \in {Suite, BandB}, c \in {Mar10, Mar11, Mar12}}

InitFull ==
  /\ reservations = FilledStore(MaxReservations - FreeSlots)
  /\ config = InitConfig
  /\ tz = 0
  /\ InitOther

NextFull ==
  \/ \E c \in CookieCredentials, b \in FullBookings, rnd \in RandomPercent :
       ReceiveReserve(Request("POST", "/reserve", c, b), rnd)
  \/ \E s \in BagToSet(suspended) : ResumeReserve(s)

SpecFull == InitFull /\ [][NextFull]_vars

(***************************************************************************)
(* SpecLogin: logins in cookie mode and in token mode with the forms of    *)
(* LoginForms, on a service on UTC without chaos.                          *)
(***************************************************************************)
TokenConfig == NewConfig([NoBody EXCEPT !.authMode = Token], InitConfig)

LoginForms ==
  {LoginForm(Admin, PassAdmin), LoginForm(Admin, Undefined),
   LoginForm(Undefined, PassAdmin),
   LoginForm(UserPrefix, PasswordPrefix),
   LoginForm(UserPrefix \o <<"7">>, PasswordPrefix \o <<"0", "7">>)}
    \cup {LoginForm(UserPrefix \o n, PasswordPrefix \o m) :
            n \in {<<"7">>, <<"1", "2">>}, m \in {<<"7">>, <<"8">>, <<"1", "2">>}}
    \cup {LoginForm(UserPrefix \o n, PasswordPrefix \o n) :
            n \in {<<"0">>, <<"0", "7">>, <<"1", "0">>}}

InitLogin ==
  /\ reservations = <<>>
  /\ config \in {InitConfig, TokenConfig}
  /\ tz = 0
  /\ InitOther

NextLogin ==
  \/ \E c \in CookieCredentials, rnd \in RandomPercent :
       ReceiveLoginPage(Request("GET", "/", c, NoBody), rnd)
  \/ \E s \in BagToSet(suspended) : ResumeLoginPage(s)
  \/ \E c \in CookieCredentials, b \in LoginForms, rnd \in RandomPercent :
       ReceiveLogin(Request("POST", "/login", c, b), rnd)
  \/ \E s \in BagToSet(suspended), h \in RandomHex : ResumeLogin(s, h)
  \/ \E s \in BagToSet(suspended), o \in ThrowOutcomes : ResumeLoginThrows(s, o)

SpecLogin == InitLogin /\ [][NextLogin]_vars

\* SpecLoginFair: the same, with every timer of sleep() firing: a login that
\* waits in its delay is resumed
SpecLoginFair ==
  /\ SpecLogin
  /\ WF_vars(\E s \in BagToSet(suspended) : ResumeLoginPage(s))
  /\ WF_vars(\E s \in BagToSet(suspended), h \in RandomHex : ResumeLogin(s, h))
  /\ WF_vars(\E s \in BagToSet(suspended), o \in ThrowOutcomes :
               ResumeLoginThrows(s, o))

(***************************************************************************)
(* SpecChaos: every route, on a service on UTC whose error rate a POST     *)
(* /config has left at 0, at 50 or at 100.                                 *)
(***************************************************************************)
InitChaos ==
  /\ reservations = <<>>
  /\ config \in {NewConfig([NoBody EXCEPT !.errorRate = r], InitConfig) :
                   r \in {Undefined, <<"5", "0">>, <<"1", "0", "0">>}}
  /\ tz = 0
  /\ InitOther

SpecChaos == InitChaos /\ [][Next]_vars

(***************************************************************************)
(* SpecMode: every route, from two states of a service on UTC in which     *)
(* user1 has logged in in token mode and holds TokenA3: the state that     *)
(* login leaves, and the state a POST /config that selects the cookie mode *)
(* leaves after it.                                                        *)
(***************************************************************************)
\* what the two states share
InitQuiet ==
  /\ roomTypes = {}
  /\ exited = FALSE
  /\ reservations = <<>>
  /\ cookieSessions = EmptyMap
  /\ suspended = EmptyBag
  /\ last = NoResponse
  /\ now = Noon10
  /\ tz = 0
  /\ issued = 0
  /\ minted = {TokenA3}

InitLoggedIn ==
  /\ InitQuiet
  /\ config = TokenConfig
  /\ tokenStore = storeToken(TokenA3, User1, EmptyMap, Noon10)
  /\ relogged = {User1}

InitSwitched ==
  /\ InitQuiet
  /\ config = NewConfig([NoBody EXCEPT !.authMode = Cookie], TokenConfig)
  /\ tokenStore = clearAllTokens(storeToken(TokenA3, User1, EmptyMap, Noon10))
  /\ relogged = {}

InitMode == InitLoggedIn \/ InitSwitched

SpecMode == InitMode /\ [][Next]_vars

\* SpecSwitched: every route, after the mode has been changed
SpecSwitched == InitSwitched /\ [][Next]_vars

(***************************************************************************)
(* SpecConfig: configuration updates with the forms of ConfigForms, and    *)
(* logins with valid credentials, from the state after construction.       *)
(***************************************************************************)
Basic == <<"b", "a", "s", "i", "c">>

ConfigForm(rate, delay, mode) ==
  [NoBody EXCEPT !.errorRate = rate, !.delay_login = delay,
                 !.delay_reserve = delay, !.delay_rooms = delay,
                 !.authMode = mode]

ConfigForms ==
  {ConfigForm(Undefined, Undefined, Undefined),
   ConfigForm(<<"1", "0", "0">>, <<"5">>, Token),
   ConfigForm(<<"1", "5", "0">>, <<"-", "5">>, Cookie),
   ConfigForm(<<"-", "5">>, Word, Token),
   ConfigForm(<<"0">>, <<"0">>, Basic)}

InitSetup ==
  /\ reservations = <<>>
  /\ config = InitConfig
  /\ tz = 0
  /\ InitOther

NextConfig ==
  \/ \E c \in CookieCredentials, rnd \in RandomPercent :
       ReceiveLoginPage(Request("GET", "/", c, NoBody), rnd)
  \/ \E s \in BagToSet(suspended) : ResumeLoginPage(s)
  \/ \E c \in CookieCredentials, b \in ConfigForms, rnd \in RandomPercent :
       PostConfig(Request("POST", "/config", c, b), rnd)
  \/ \E c \in CookieCredentials, rnd \in RandomPercent :
       GetConfig(Request("GET", "/config", c, NoBody), rnd)
  \/ \E c \in CookieCredentials,
        b \in {LoginForm(Admin, PassAdmin), LoginForm(User1, Pass1)},
        rnd \in RandomPercent :
       ReceiveLogin(Request("POST", "/login", c, b), rnd)
  \/ \E s \in BagToSet(suspended), h \in RandomHex : ResumeLogin(s, h)

SpecConfig == InitSetup /\ [][NextConfig]_vars

(***************************************************************************)
(* SpecAll: every route, the page reads included, on a service on UTC      *)
(* whose store holds a booking User1 made and a booking Admin made, in     *)
(* cookie mode, or in token mode with a token of User1 registered.         *)
(***************************************************************************)
TwoGuests ==
  LET first == NewReservation(Booking(Guest, Annex, Mar10, One), User1, <<>>, Noon10, 0)
  IN  <<first,
        NewReservation(Booking(Guest, Annex, Mar11, One), Admin, <<first>>, Noon10, 0)>>

InitAll ==
  /\ roomTypes \in Catalogs
  /\ exited = FALSE
  /\ reservations = TwoGuests
  /\ cookieSessions = EmptyMap
  /\ suspended = EmptyBag
  /\ last = NoResponse
  /\ now = Noon10
  /\ tz = 0
  /\ issued = 0
  /\ minted = {TokenA3}
  /\ \/ /\ config = InitConfig
        /\ tokenStore = EmptyMap
        /\ relogged = {}
     \/ /\ config = TokenConfig
        /\ tokenStore = storeToken(TokenA3, User1, EmptyMap, Noon10)
        /\ relogged = {User1}

SpecAll == InitAll /\ [][NextAll]_vars

\* SpecWait: bookings, overviews and mode switches, from the same states
NextWait ==
  \/ \E c \in FewCredentials, b \in FewBookings, rnd \in RandomPercent :
       ReceiveReserve(Request("POST", "/reserve", c, b), rnd)
  \/ \E s \in BagToSet(suspended) : ResumeReserve(s)
  \/ \E c \in FewCredentials, rnd \in RandomPercent :
       ReceiveOverview(Request("GET", "/overview", c, NoBody), rnd)
  \/ \E s \in BagToSet(suspended) : ResumeOverview(s)
  \/ \E a \in {Cookie, Token}, rnd \in RandomPercent :
       PostConfig(Request("POST", "/config", Anonymous,
                          [NoBody EXCEPT !.authMode = a]), rnd)

SpecWait == InitAll /\ [][NextWait]_vars

\* SpecChaosAll: the same, after a POST /config that has set the error rate
\* to 50 and kept the mode
InitChaosAll ==
  /\ roomTypes \in Catalogs
  /\ exited = FALSE
  /\ reservations = TwoGuests
  /\ cookieSessions = EmptyMap
  /\ suspended = EmptyBag
  /\ last = NoResponse
  /\ now = Noon10
  /\ tz = 0
  /\ issued = 0
  /\ minted = {TokenA3}
  /\ \/ /\ config = NewConfig([NoBody EXCEPT !.errorRate = <<"5", "0">>], InitConfig)
        /\ tokenStore = EmptyMap
        /\ relogged = {}
     \/ /\ config = NewConfig([NoBody EXCEPT !.errorRate = <<"5", "0">>,
                                             !.authMode = Token], InitConfig)
        /\ tokenStore = storeToken(TokenA3, User1, EmptyMap, Noon10)
        /\ relogged = {User1}

SpecChaosAll == InitChaosAll /\ [][NextAll]_vars

(***************************************************************************)
(* SpecDefault: logins, logouts, menus and configuration forms of which    *)
(* none names the cookie mode: a form either names the token mode or has   *)
(* no authMode field.  From the states of SpecMode.                        *)
(***************************************************************************)
ModelessForms ==
  {NoBody, [NoBody EXCEPT !.delay_reserve = <<"5">>, !.delay_rooms = <<"5">>]}

NextDefault ==
  \/ \E c \in FewCredentials, rnd \in RandomPercent :
       ReceiveLoginPage(Request("GET", "/", c, NoBody), rnd)
  \/ \E s \in BagToSet(suspended) : ResumeLoginPage(s)
  \/ \E c \in CookieCredentials, b \in ModelessForms, rnd \in RandomPercent :
       PostConfig(Request("POST", "/config", c, b), rnd)
  \/ \E rnd \in RandomPercent :
       PostConfig(Request("POST", "/config", Anonymous,
                          [NoBody EXCEPT !.authMode = Token]), rnd)
  \/ \E c \in CookieCredentials, rnd \in RandomPercent :
       ReceiveLogin(Request("POST", "/login", c, LoginForm(User1, Pass1)), rnd)
  \/ \E s \in BagToSet(suspended), h \in RandomHex : ResumeLogin(s, h)
  \/ \E c \in FewCredentials, rnd \in RandomPercent :
       Logout(Request("GET", "/logout", c, NoBody), rnd)
  \/ \E c \in FewCredentials, rnd \in RandomPercent :
       ReceiveMenu(Request("GET", "/menu", c, NoBody), rnd)
  \/ \E s \in BagToSet(suspended) : ResumeMenu(s)

SpecDefault == InitMode /\ [][NextDefault]_vars

(***************************************************************************)
(* Properties.  The vocabulary they are stated in is defined here from the *)
(* calendar and from the requests and responses, not from the handlers.    *)
(***************************************************************************)
\* the string has the shape YYYY-MM-DD and names a day that exists
IsCalendarDate(s) ==
  /\ DateRegex(s)
  /\ DateFields(s).month \in 1..12
  /\ DateFields(s).day \in 1..DaysInMonth(DateFields(s).year, DateFields(s).month)

\* the day number of a calendar date
DayOf(s) == MakeDay(DateFields(s).year, DateFields(s).month, DateFields(s).day)

\* the days of the half-open interval [checkIn, checkIn + nights)
StayDays(checkIn, nights) == DayOf(checkIn)..(DayOf(checkIn) + nights - 1)

\* the step resumes the suspended request s
Resumes(s) == BagIn(s, suspended) /\ suspended' = suspended (-) SetToBag({s})

\* the step sends the response to a POST /reserve
AnswersReserve == last'.seq = last.seq + 1 /\ last'.path = "/reserve"

\* the response reports the error page with this status and heading
Refused(resp, status, heading) == resp.status = status /\ resp.page = heading

\* the form of a booking a client means to make: every field present, a real
\* date, a positive whole number of nights
WellFormedBooking(body) ==
  /\ Truthy(body.guest) /\ Truthy(body.room)
  /\ IsCalendarDate(body.checkIn)
  /\ ~Number(body.nights).nan /\ Number(body.nights).v > 0

\* C1: after any sequence of requests, any two reservations the store holds
\* for the same room have disjoint half-open intervals [checkIn, checkIn + nights).
C1_NoOverlap ==
  \A i, j \in 1..Len(reservations) :
    (i < j /\ reservations[i].room = reservations[j].room)
      => StayDays(reservations[i].checkIn, reservations[i].nights)
           \cap StayDays(reservations[j].checkIn, reservations[j].nights) = {}

\* C2: of two POST /reserve requests by identified callers for the same room
\* and overlapping intervals that are suspended together, one at most is
\* appended: the step that appends the one leaves a store on which the
\* checks of the other end with the 409 conflict outcome.
C2_OneOfTwoConcurrent ==
  [][\A s1, s2 \in BagToSet(suspended) :
       ( /\ s1 # s2 \/ CopiesIn(s1, suspended) >= 2
         /\ s1.req.path = "/reserve" /\ s2.req.path = "/reserve"
         /\ Truthy(s1.user) /\ Truthy(s2.user)
         /\ WellFormedBooking(s1.req.body) /\ WellFormedBooking(s2.req.body)
         /\ s1.req.body.room = s2.req.body.room
         /\ StayDays(s1.req.body.checkIn, Number(s1.req.body.nights).v)
              \cap StayDays(s2.req.body.checkIn, Number(s2.req.body.nights).v) # {}
         /\ Resumes(s1)
         /\ Len(reservations') > Len(reservations) )
       => ReserveOutcome(s2.req.body, reservations', now', tz') = "Room Unavailable"
    ]_vars

\* C3: every accepted reservation gets an id strictly greater than every id
\* assigned before it, also after eviction: along the store, which keeps the
\* insertion order, the ids strictly increase.
C3_IdsIncrease ==
  \A k \in 1..(Len(reservations) - 1) : reservations[k].id < reservations[k + 1].id

\* C4: the store never holds more than 2000 records; an accepted POST /reserve
\* on a store of 2000 leaves 2000 records, the oldest removed, the others in
\* their order, the new record last; below 2000 it only appends.
C4_BoundedFifo ==
  /\ [](Len(reservations) <= MaxReservations)
  /\ [][(AnswersReserve /\ last'.status = 302 /\ last'.location = "/overview")
          => \E s \in BagToSet(suspended) :
               /\ Resumes(s)
               /\ reservations'[Len(reservations')].checkIn = s.req.body.checkIn
               /\ reservations'[Len(reservations')].bookedBy = s.user
               /\ IF Len(reservations) = MaxReservations
                    THEN /\ Len(reservations') = MaxReservations
                         /\ SubSeq(reservations', 1, MaxReservations - 1)
                              = Tail(reservations)
                    ELSE /\ Len(reservations') = Len(reservations) + 1
                         /\ SubSeq(reservations', 1, Len(reservations)) = reservations
       ]_vars

\* C4: an accepted booking has evicted the oldest record of a full store.
C4_Evicted ==
  /\ Len(reservations) = MaxReservations
  /\ reservations[1].id = 2
  /\ reservations[MaxReservations].room = escapeHtml(Suite)
  /\ last.status = 302 /\ last.location = "/overview"

\* C5: POST /reserve by an identified caller runs its checks in the order
\* (1) guest, room and checkIn present, (2) the date check, (3) checkIn not
\* before today, (4) the room available; the first check that fails decides
\* the outcome (400, 400, 400, 409) and the record is appended only when
\* all four pass.  Check (2) is the handler's date check isValidDate.
C5_CheckOrder ==
  [][\A s \in BagToSet(suspended) :
       (Resumes(s) /\ s.req.path = "/reserve") =>
         LET b == s.req.body
             present == Truthy(b.guest) /\ Truthy(b.room) /\ Truthy(b.checkIn)
             dated == isValidDate(b.checkIn, tz)
             notPast == ~InThePast(b.checkIn, now, tz)
             free == isRoomAvailable(b.room, b.checkIn, Number(b.nights), reservations)
             appended == /\ Len(reservations') = Len(reservations) + 1
                         /\ SubSeq(reservations', 1, Len(reservations)) = reservations
                         /\ reservations'[Len(reservations')].checkIn = b.checkIn
         IN  /\ AnswersReserve
             /\ ~present => Refused(last', 400, "Missing Information")
             /\ (present /\ ~dated) => Refused(last', 400, "Invalid Date Format")
             /\ (present /\ dated /\ ~notPast) => Refused(last', 400, "Invalid Date")
             /\ (present /\ dated /\ notPast /\ ~free)
                  => Refused(last', 409, "Room Unavailable")
             /\ (present /\ dated /\ notPast /\ free)
                  => last'.status = 302 /\ last'.location = "/overview"
             /\ appended <=> (present /\ dated /\ notPast /\ free)
             /\ ~appended => reservations' = reservations
    ]_vars

\* C5: a booking for a day that has passed was refused by check (3), after
\* checks (1) and (2) passed, on a store that holds a record.
C5_RefusedAsPast ==
  /\ last.path = "/reserve"
  /\ Refused(last, 400, "Invalid Date")
  /\ Len(reservations) = 1

\* C6: a POST /reserve that ends in a 400, a 409, a redirect to the login
\* page or a simulated 500 leaves the store exactly as it was.
C6_RefusalKeepsStore ==
  [][(/\ AnswersReserve
      /\ \/ last'.status \in {400, 409, 500}
         \/ last'.status = 302 /\ last'.location = "/")
       => reservations' = reservations
    ]_vars

\* C6: a booking was refused with 409 on a store that holds a record.
C6_RefusedAsTaken ==
  /\ last.path = "/reserve"
  /\ last.status = 409
  /\ Len(reservations) = 1
  /\ reservations[1].id = 1

\* C7: the date check of POST /reserve refuses a checkIn with 400 "Invalid
\* Date Format" exactly when it has not the shape YYYY-MM-DD or names a day
\* that does not exist; a date that exists is never refused by it.
C7_DateCheckExact ==
  [][\A s \in BagToSet(suspended) :
       ( /\ Resumes(s) /\ s.req.path = "/reserve"
         /\ Truthy(s.req.body.guest) /\ Truthy(s.req.body.room)
         /\ Truthy(s.req.body.checkIn) )
       => (Refused(last', 400, "Invalid Date Format")
             <=> ~IsCalendarDate(s.req.body.checkIn))
    ]_vars

\* isRoomAvailable on this store is the half-open overlap test, stated in
\* days: unavailable exactly when a record of the same room has checkIn < e
\* and checkIn + nights > s; stays that touch a record's stay are available;
\* a room without a record is available
OverlapTestOn(store) ==
  /\ \A room \in {Suite, BandB, escapeHtml(BandB)}, c \in {Mar09, Mar10, Mar11, Mar12},
        n \in {0, 1, 2} :
       isRoomAvailable(room, c, Num(n), store)
         <=> ~\E k \in 1..Len(store) :
                /\ store[k].room = room
                /\ DayOf(c) < DayOf(store[k].checkIn) + store[k].nights
                /\ DayOf(c) + n > DayOf(store[k].checkIn)
  /\ \A k \in 1..Len(store), n \in 1..2 :
       LET r == store[k]
       IN  r.nights > 0 =>
             /\ isRoomAvailable(r.room, DateString(DayOf(r.checkIn) + r.nights),
                                Num(n), <<r>>)
             /\ isRoomAvailable(r.room, DateString(DayOf(r.checkIn) - n),
                                Num(n), <<r>>)
             /\ ~isRoomAvailable(r.room, DateString(DayOf(r.checkIn) + r.nights - 1),
                                 Num(n), <<r>>)
  /\ \A c \in {Mar09, Mar10, Mar11, Mar12} : isRoomAvailable(Annex, c, Num(1), store)

\* C8: isRoomAvailable(room, checkIn, nights) is false exactly when a stored
\* record of the same room has an interval [s, e) with checkIn < e and
\* checkIn + nights > s; a stay that begins on the day a record's ends, or
\* ends on the day a record's begins, is available, and so is a room with
\* no record.  It holds on the empty store and on every store a request
\* leaves.
C8_HalfOpenOverlap ==
  /\ OverlapTestOn(<<>>)
  /\ [][reservations' # reservations => OverlapTestOn(reservations')]_vars

\* C8: the store holds the Suite from March 10 for two nights: March 12 is
\* available, March 9 for one night is available, March 11 is not.
C8_TouchingStays ==
  /\ \E k \in 1..Len(reservations) :
       /\ reservations[k].room = Suite
       /\ reservations[k].checkIn = Mar10
       /\ reservations[k].nights = 2
  /\ isRoomAvailable(Suite, Mar12, Num(1), reservations)
  /\ isRoomAvailable(Suite, Mar09, Num(1), reservations)
  /\ ~isRoomAvailable(Suite, Mar11, Num(1), reservations)

\* C9: every reservation in the store has a nights value that is a positive
\* integer, whatever the request supplied.
C9_NightsPositive ==
  \A k \in 1..Len(reservations) : reservations[k].nights \in Nat \ {0}

\* a response given ahead of the identity middleware: that of the image
\* route, and a file served by a static mount
AheadOfMiddleware(resp) ==
  \/ resp.path = "/images/:filename"
  \/ resp.path \in StaticPaths /\ resp.status = 200

\* the step is a POST /config without any form field
FieldlessConfigStep ==
  \E c \in CookieCredentials, rnd \in RandomPercent :
    PostConfig(Request("POST", "/config", c, NoBody), rnd)

\* C10: in token mode a request is resolved to identity u exactly when the
\* token it presents (the query parameter, else the form field) is a key of
\* the token registry mapped to u, and to no identity otherwise; a request
\* that is resolved to no identity is answered as an unauthenticated
\* request, not with an error.  The statuses other than 200 and 302 such a
\* request can end with are not of the identity's making: the 404 of a
\* static path without a file, and the 500 of a POST /config without any
\* form field where the body is left undefined.  A request answered ahead of
\* the identity middleware is not resolved at all.
C10_TokenLookup ==
  [][(issued' = issued + 1 /\ config.authMode = Token) =>
       LET Resolved(q, b, u) ==
             LET presented == IF Truthy(q) THEN q ELSE b
             IN  u = IF presented \in DOMAIN tokenStore
                       THEN tokenStore[presented].username
                       ELSE Undefined
       IN  \/ /\ last'.seq = last.seq + 1
              /\ suspended' = suspended
              /\ AheadOfMiddleware(last')
           \/ /\ last'.seq = last.seq + 1
              /\ suspended' = suspended
              /\ Resolved(last'.qtoken, last'.btoken, last'.user)
              /\ (config.errorRate = 0 /\ last'.user = Undefined)
                   => \/ last'.status \in {200, 302}
                      \/ last'.status = 404 /\ last'.path \in StaticPaths
                      \/ /\ last'.status = 500 /\ last'.page = "TypeError"
                         /\ FieldlessConfigStep
           \/ /\ last' = last
              /\ \E s \in BagToSet(suspended') :
                   /\ suspended' = suspended (+) SetToBag({s})
                   /\ Resolved(s.req.query.token, s.req.body.token, s.user)
    ]_vars

\* C10: a request that presented a registered token in the form field was
\* resolved to the user the registry maps it to.
C10_ResolvedByFormToken ==
  /\ config.authMode = Token
  /\ last.qtoken = Undefined
  /\ last.btoken \in DOMAIN tokenStore
  /\ last.user = tokenStore[last.btoken].username
  /\ last.user = User1

\* the requests the step passes through the identity middleware, each with
\* the cookie it carries and the token and user the middleware attaches
NewlyResolved ==
  IF issued' # issued + 1 THEN {}
  ELSE IF last'.seq = last.seq + 1
    THEN IF AheadOfMiddleware(last') THEN {}
         ELSE {[cookie |-> last'.cookie, user |-> last'.user,
                token |-> last'.token]}
  ELSE {[cookie |-> x.req.cookie, user |-> x.user, token |-> x.token] :
          x \in {y \in BagToSet(suspended') : suspended' = suspended (+) SetToBag({y})}}

\* C11: a POST /config that changes the authentication mode empties the
\* token registry and the session registry in the same step; a token that
\* was issued and is no longer registered never returns to the registry,
\* and a request that presents it is resolved to no identity, also after
\* the mode is switched back to token.
C11_SwitchResets ==
  [][/\ config'.authMode # config.authMode
          => tokenStore' = EmptyMap /\ cookieSessions' = EmptyMap
     /\ \A t \in minted : t \notin DOMAIN tokenStore => t \notin DOMAIN tokenStore'
     /\ \A r \in NewlyResolved :
          (r.token \in minted /\ r.token \notin DOMAIN tokenStore)
            => r.user = Undefined
    ]_vars

\* C11: back in token mode after a mode change, a request that presented a
\* token issued before the change was answered as resolved to no identity.
C11_OldTokenUnresolved ==
  /\ config.authMode = Token
  /\ relogged = {}
  /\ last.token \in minted
  /\ last.token \notin DOMAIN tokenStore
  /\ last.user = Undefined
  /\ last.seq = 2

\* C12: after a POST /config that has changed the authentication mode, a
\* request is resolved to an identity only if that user has completed a
\* successful login since the change.
C12_ReloginForced ==
  [][\A r \in NewlyResolved : r.user # Undefined => r.user \in relogged]_vars

\* the step sends the response to a POST /login
AnswersLogin == last'.seq = last.seq + 1 /\ last'.path = "/login"

\* C13: a successful POST /login in token mode adds exactly one entry to
\* the token registry, keyed by a token that is not registered and was
\* never issued before, mapped to the username of the form, and redirects
\* to the menu with that token; the entries already there stay as they are.
C13_LoginMintsToken ==
  [][(AnswersLogin /\ last'.status = 302 /\ config.authMode = Token) =>
       \E s \in BagToSet(suspended) :
         LET t == last'.linkToken
         IN  /\ Resumes(s)
             /\ last'.location = "/menu"
             /\ Truthy(t)
             /\ t \notin DOMAIN tokenStore
             /\ t \notin minted
             /\ DOMAIN tokenStore' = DOMAIN tokenStore \cup {t}
             /\ tokenStore'[t].username = s.req.body.username
             /\ \A k \in DOMAIN tokenStore : tokenStore'[k] = tokenStore[k]
    ]_vars

\* C13: user1, who held a token, has logged in again and holds two.
C13_SecondToken ==
  /\ last.path = "/login"
  /\ last.status = 302
  /\ last.linkToken \in DOMAIN tokenStore
  /\ TokenA3 \in DOMAIN tokenStore
  /\ last.linkToken # TokenA3
  /\ tokenStore[last.linkToken].username = User1
  /\ tokenStore[TokenA3].username = User1

\* C14: in token mode, once the handler of GET /logout has answered a
\* request that presented the registered token t, t is out of the registry
\* and the other tokens are still in it; t never returns to the registry,
\* and every later request that presents t is resolved to no identity.
C14_LogoutKillsToken ==
  [][/\ ( /\ last'.seq = last.seq + 1 /\ last'.path = "/logout"
          /\ last'.status = 302
          /\ config.authMode = Token
          /\ last'.token \in DOMAIN tokenStore )
        => /\ DOMAIN tokenStore' = DOMAIN tokenStore \ {last'.token}
           /\ \A k \in DOMAIN tokenStore' : tokenStore'[k] = tokenStore[k]
     /\ \A r \in NewlyResolved :
          ( /\ config.authMode = Token
            /\ Truthy(r.token)
            /\ r.token \notin DOMAIN tokenStore )
          => /\ r.user = Undefined
             /\ r.token \in minted => r.token \notin DOMAIN tokenStore'
    ]_vars

\* C14: user1 has logged out with TokenA3, and a later request that
\* presented TokenA3 was answered as resolved to no identity.
C14_LoggedOutTokenUnresolved ==
  /\ config.authMode = Token
  /\ relogged = {User1}
  /\ TokenA3 \notin DOMAIN tokenStore
  /\ last.token = TokenA3
  /\ last.user = Undefined
  /\ last.seq = 2

\* the routes that ask for an identity
GatedPaths == {"/menu", "/rooms", "/reserve", "/overview", "/logout"}

\* C15: in token mode every link and redirect target that the service
\* serves to a caller resolved through token t, and that leads to a route
\* that asks for an identity, carries t, the logout link of the menu page
\* included; in cookie mode no link carries a token.
C15_LinksCarryToken ==
  [][(last'.seq = last.seq + 1 /\ last'.path # "/login") =>
       /\ (config'.authMode = Token /\ last'.user # Undefined) =>
            /\ last'.location \in GatedPaths => last'.linkToken = last'.token
            /\ \A l \in last'.links : l.path \in GatedPaths => l.token = last'.token
       /\ config'.authMode = Cookie =>
            /\ last'.linkToken = Undefined
            /\ \A l \in last'.links : l.token = Undefined
    ]_vars

\* the string is this prefix followed by one digit or more
PrefixedNumber(str, prefix) ==
  /\ str # Undefined
  /\ Len(str) > Len(prefix)
  /\ SubSeq(str, 1, Len(prefix)) = prefix
  /\ AllDigits(SubSeq(str, Len(prefix) + 1, Len(str)))

\* the digits that follow the prefix
NumberAfter(str, prefix) == SubSeq(str, Len(prefix) + 1, Len(str))

\* the digits write a positive integer without a leading zero
Canonical(digits) == digits # <<>> /\ AllDigits(digits) /\ digits[1] # "0"

\* the response is that of a successful login as this user: the redirect to
\* the menu with the username cookie (cookie mode) or with a registered
\* token of the user (token mode)
LoggedInAs(resp, username) ==
  /\ resp.status = 302 /\ resp.location = "/menu"
  /\ \/ /\ config.authMode = Cookie
        /\ resp.setCookie = username
        /\ username \in DOMAIN cookieSessions'
     \/ /\ config.authMode = Token
        /\ resp.linkToken \in DOMAIN tokenStore'
        /\ tokenStore'[resp.linkToken].username = username

\* C16: POST /login succeeds for admin/password and for user<N>/Password<N>
\* for every positive integer N written without leading zeros, and fails
\* whenever the digits after Password differ from the digits after user.
C16_CredentialRule ==
  [][\A s \in BagToSet(suspended) :
       (Resumes(s) /\ s.req.path = "/login") =>
         LET u == s.req.body.username
             p == s.req.body.password
         IN  /\ (u = Admin /\ p = PassAdmin) => AnswersLogin /\ LoggedInAs(last', u)
             /\ ( /\ PrefixedNumber(u, UserPrefix)
                  /\ Canonical(NumberAfter(u, UserPrefix))
                  /\ p = PasswordPrefix \o NumberAfter(u, UserPrefix) )
                => AnswersLogin /\ LoggedInAs(last', u)
             /\ ( /\ PrefixedNumber(u, UserPrefix)
                  /\ PrefixedNumber(p, PasswordPrefix)
                  /\ NumberAfter(u, UserPrefix) # NumberAfter(p, PasswordPrefix) )
                => AnswersLogin /\ Refused(last', 200, "Login Failed")
    ]_vars

\* C16: user12 has logged in with Password12 in cookie mode.
C16_User12LoggedIn ==
  /\ last.path = "/login"
  /\ last.status = 302
  /\ last.setCookie = UserPrefix \o <<"1", "2">>
  /\ UserPrefix \o <<"1", "2">> \in relogged

\* C17: POST /login fails for a username whose number is not a canonical
\* positive integer, even when the password repeats its digits: user07 with
\* Password07 and user0 with Password0 get the login-failure page.
C17_NoLeadingZero ==
  [][\A s \in BagToSet(suspended) :
       ( /\ Resumes(s) /\ s.req.path = "/login"
         /\ PrefixedNumber(s.req.body.username, UserPrefix)
         /\ ~Canonical(NumberAfter(s.req.body.username, UserPrefix)) )
       => AnswersLogin /\ Refused(last', 200, "Login Failed")
    ]_vars

\* C18: a POST /login whose credentials do not satisfy the credential rule,
\* a missing username or password included, is answered with the login-
\* failure page with status 200, sets no cookie, and leaves the session
\* registry and the token registry unchanged.
C18_FailedLoginHarmless ==
  [][\A s \in BagToSet(suspended) :
       ( /\ Resumes(s) /\ s.req.path = "/login"
         /\ ~(s.req.body.username = Admin /\ s.req.body.password = PassAdmin)
         /\ ~( /\ PrefixedNumber(s.req.body.username, UserPrefix)
               /\ s.req.body.password
                    = PasswordPrefix \o NumberAfter(s.req.body.username, UserPrefix) ) )
       => /\ AnswersLogin
          /\ Refused(last', 200, "Login Failed")
          /\ last'.setCookie = Undefined
          /\ tokenStore' = tokenStore
          /\ cookieSessions' = cookieSessions
    ]_vars

\* the response the chaos middleware ends a request with
IsChaosResponse(resp) ==
  resp.status = 500 /\ resp.page = "500 Internal Server Error"

\* C19: with the chaos percentage at 100 every request outside /config is
\* ended by the middleware with the simulated 500 and reaches no handler;
\* with the percentage at 0 no request is ever answered by the middleware.
\* The requests include those for an image and for a static file.
C19_ChaosExtremes ==
  [][/\ (config.errorRate = 100 /\ issued' = issued + 1) =>
          /\ suspended' = suspended
          /\ last'.seq = last.seq + 1
          /\ last'.path # "/config" => IsChaosResponse(last')
     /\ (config.errorRate = 0 /\ last'.seq = last.seq + 1) =>
          ~IsChaosResponse(last')
    ]_vars

\* the two extremes for the requests that reach the chaos middleware: at
\* 100 each of them outside /config is ended with the simulated 500, at 0
\* none is.  The requests answered ahead of the middleware are left out.
ChaosExtremesPastMiddleware ==
  [][/\ (config.errorRate = 100 /\ issued' = issued + 1) =>
          /\ suspended' = suspended
          /\ last'.seq = last.seq + 1
          /\ (last'.path # "/config" /\ ~AheadOfMiddleware(last'))
               => IsChaosResponse(last')
     /\ (config.errorRate = 0 /\ last'.seq = last.seq + 1) =>
          ~IsChaosResponse(last')
    ]_vars

\* a menu request has been ended with the simulated 500 at rate 100
MenuFailedAtFull ==
  /\ config.errorRate = 100
  /\ last.path = "/menu"
  /\ IsChaosResponse(last)

\* an image request has been answered 404 at rate 100
ImageAnsweredAtFull ==
  /\ config.errorRate = 100
  /\ last.path = "/images/:filename"
  /\ last.status = 404 /\ last.page = "Not an image"

\* C20: a request under /config is never ended by the chaos middleware,
\* whatever the percentage: GET /config is answered with the configuration
\* page and POST /config with its confirmation or its redirect; only a POST
\* without any form field can instead be answered with the 500 of the
\* handler's own TypeError, which is not the simulated failure and leaves
\* the configuration as it was.  So, in every reachable state and for every
\* draw of the chaos check, the next request can read the configuration and
\* the next request, a form with the field errorRate=0, can set the
\* percentage back to 0.
C20_ConfigExempt ==
  /\ [][(issued' = issued + 1 /\ last'.seq = last.seq + 1 /\ last'.path = "/config") =>
          /\ ~IsChaosResponse(last')
          /\ last'.method = "GET" =>
               last'.status = 200 /\ last'.page = "Workshop Config"
          /\ last'.method = "POST" =>
               \/ last'.status = 200 /\ last'.page = "Configuration Updated"
               \/ last'.status = 302 /\ last'.location = "/config"
               \/ /\ last'.status = 500 /\ last'.page = "TypeError"
                  /\ FieldlessConfigStep
                  /\ config' = config
       ]_vars
  /\ [](CanReceive =>
          \A rnd \in RandomPercent :
            /\ ENABLED ( /\ GetConfig(Request("GET", "/config", Anonymous, NoBody), rnd)
                         /\ last'.status = 200 /\ config' = config )
            /\ ENABLED ( /\ PostConfig(Request("POST", "/config", Anonymous,
                                               [NoBody EXCEPT !.errorRate = Zero]),
                                       rnd)
                         /\ config'.errorRate = 0
                         /\ last'.status \in {200, 302} ))

\* C20: the configuration page has been served while the rate is 100.
C20_ConfigReadAtFull ==
  /\ config.errorRate = 100
  /\ last.method = "GET" /\ last.path = "/config"
  /\ last.status = 200 /\ last.page = "Workshop Config"

\* C21: the identity middleware runs before the chaos check and the chaos
\* check before the route handler: a request the chaos check fails has had
\* its identity resolved (in cookie mode its session entry is refreshed),
\* and it reaches no handler, so it changes neither the reservation store
\* nor the token registry nor the configuration and is not suspended in any
\* route latency.
C21_ChaosBeforeHandler ==
  [][(issued' = issued + 1 /\ last'.seq = last.seq + 1 /\ IsChaosResponse(last')) =>
       /\ reservations' = reservations
       /\ tokenStore' = tokenStore
       /\ config' = config
       /\ suspended' = suspended
       /\ config.authMode = Cookie =>
            /\ last'.user = last'.cookie
            /\ Truthy(last'.cookie) =>
                 /\ last'.cookie \in DOMAIN cookieSessions'
                 /\ cookieSessions'[last'.cookie] = now
       /\ config.authMode = Token =>
            last'.user = getUserFromToken(last'.token, tokenStore)
    ]_vars

\* C21: the chaos check has failed a logout that presented the registered
\* token of User1, and the token is still registered.
C21_LogoutFailedByChaos ==
  /\ IsChaosResponse(last)
  /\ last.path = "/logout"
  /\ last.token = TokenA3
  /\ last.user = User1
  /\ TokenA3 \in DOMAIN tokenStore

\* the routes that require a resolved identity
ProtectedPaths == {"/menu", "/rooms", "/rooms/:id", "/reserve", "/overview"}

\* C22: a request to GET /menu, GET /rooms, GET /rooms/:id, GET /reserve,
\* GET /overview or POST /reserve that is resolved to no identity is
\* answered with the redirect to /, is never suspended in a latency delay,
\* and changes no reservation, no token and no session entry.
C22_NoIdentityRedirected ==
  [][/\ \A s \in BagToSet(suspended') :
          s.req.path \in ProtectedPaths => Truthy(s.user)
     /\ ( /\ last'.seq = last.seq + 1
          /\ last'.path \in ProtectedPaths
          /\ ~Truthy(last'.user) )
        => /\ last'.status = 302
           /\ last'.location = "/"
           /\ reservations' = reservations
           /\ tokenStore' = tokenStore
           /\ cookieSessions' = cookieSessions
           /\ suspended' = suspended
    ]_vars

\* C22: a room page was asked for with a token that resolves to nobody, and
\* the caller was sent to /.
C22_RoomAskedByNobody ==
  /\ last.path = "/rooms/:id"
  /\ last.qtoken = TokenA3
  /\ last.user = Undefined
  /\ last.status = 302
  /\ last.location = "/"

\* C23: the reservation store changes only in the step that answers an
\* accepted POST /reserve: login, logout, configuration updates (a mode
\* switch included), page reads and rejected bookings leave it as it is.
\* The change is the append of one record, with the eviction of the oldest
\* when the store is full; every other record stays as it was.
C23_StoreFrame ==
  [][reservations' # reservations =>
       /\ \E s \in BagToSet(suspended) :
            Resumes(s) /\ s.req.method = "POST" /\ s.req.path = "/reserve"
       /\ AnswersReserve
       /\ last'.method = "POST" /\ last'.status = 302 /\ last'.location = "/overview"
       /\ \/ /\ Len(reservations') = Len(reservations) + 1
             /\ SubSeq(reservations', 1, Len(reservations)) = reservations
          \/ /\ Len(reservations) = MaxReservations
             /\ Len(reservations') = MaxReservations
             /\ SubSeq(reservations', 1, MaxReservations - 1) = Tail(reservations)
    ]_vars

\* C23: after a mode switch and an accepted booking the two records the
\* store began with are in it as they were, before the new one.
C23_OldRecordsKept ==
  /\ config.authMode # InitConfig.authMode
  /\ Len(reservations) = 3
  /\ SubSeq(reservations, 1, 2) = TwoGuests

\* C24: the two identity modes are mutually exclusive.  In every reachable
\* state, two requests that differ only in their username cookie are
\* resolved to the same identity in token mode, and two requests that differ
\* only in their token parameters are resolved to the same identity, with
\* the same effect on the session registry, in cookie mode.
C24_ModesExclusive ==
  \A c1, c2 \in Credentials :
    LET a1 == AuthMiddleware(Request("GET", "/menu", c1, NoBody))
        a2 == AuthMiddleware(Request("GET", "/menu", c2, NoBody))
    IN  /\ ( /\ config.authMode = Token
             /\ c1.qtoken = c2.qtoken /\ c1.btoken = c2.btoken )
           => a1 = a2
        /\ (config.authMode = Cookie /\ c1.cookie = c2.cookie)
           => a1 = a2

\* C24: in token mode a request with the cookie of Admin and the token of
\* User1 has been served as User1; the registry holds no session of Admin.
C24_CookieIgnoredInTokenMode ==
  /\ config.authMode = Token
  /\ last.cookie = Admin
  /\ last.qtoken = TokenA3
  /\ last.user = User1
  /\ last.status = 200
  /\ Admin \notin DOMAIN cookieSessions

\* C25: the page GET /overview serves to a caller with identity u lists
\* exactly the records of the store, as it is when the page is made, whose
\* bookedBy is u; and the record an accepted POST /reserve appends has as
\* bookedBy the identity the request was resolved to.
C25_OverviewOfCaller ==
  [][/\ ( /\ last'.seq = last.seq + 1
          /\ last'.path = "/overview" /\ last'.status = 200 )
        => /\ \A i \in 1..Len(reservations) :
                (reservations[i].bookedBy = last'.user)
                  <=> (\E j \in 1..Len(last'.rows) : last'.rows[j] = reservations[i])
           /\ \A j \in 1..Len(last'.rows) :
                \E i \in 1..Len(reservations) : last'.rows[j] = reservations[i]
           /\ \A j, k \in 1..Len(last'.rows) :
                last'.rows[j] = last'.rows[k] => j = k
     /\ reservations' # reservations =>
          /\ Truthy(last'.user)
          /\ reservations'[Len(reservations')].bookedBy = last'.user
    ]_vars

\* C25: User1 has booked a third record and is shown two of the three, the
\* newest first.
C25_TwoOfThreeListed ==
  /\ last.path = "/overview" /\ last.status = 200
  /\ last.user = User1
  /\ Len(reservations) = 3
  /\ Len(last.rows) = 2
  /\ last.rows[1] = reservations[3]

\* C26: a request suspended in its latency delay blocks nothing.  In every
\* reachable state with a suspended request that still admits a request:
\* a request for a page can be received and answered at once, a request of
\* a caller with an identity can be received and suspended next to the
\* first, a POST /config can change the mode and clear the registries, and
\* each suspended overview can be resumed and read the store whatever the
\* others do.
C26_DelayBlocksNothing ==
  (suspended # EmptyBag /\ CanReceive) =>
    /\ ENABLED ( /\ ReceiveOverview(Request("GET", "/overview", Anonymous, NoBody), 99)
                 /\ last'.seq = last.seq + 1 /\ suspended' = suspended )
    /\ \A c \in FewCredentials :
         Truthy(AuthMiddleware(Request("GET", "/overview", c, NoBody)).user) =>
           ENABLED ( /\ ReceiveOverview(Request("GET", "/overview", c, NoBody), 99)
                     /\ BagCardinality(suspended') = BagCardinality(suspended) + 1 )
    /\ ENABLED ( /\ \E a \in {Cookie, Token} :
                      PostConfig(Request("POST", "/config", Anonymous,
                                         [NoBody EXCEPT !.authMode = a]), 99)
                 /\ config'.authMode # config.authMode
                 /\ tokenStore' = EmptyMap /\ cookieSessions' = EmptyMap
                 /\ suspended' = suspended )
    /\ \A s \in BagToSet(suspended) :
         s.req.path = "/overview" =>
           ENABLED ( /\ ResumeOverview(s)
                     /\ last'.rows = Reverse(SelectSeq(reservations,
                                                LAMBDA r : r.bookedBy = s.user))
                     /\ suspended' = suspended (-) SetToBag({s}) )

\* C26: a booking is answered while a page read that arrived before it is
\* still suspended.
C26_AnsweredWhileOtherWaits ==
  /\ last.path = "/reserve" /\ last.method = "POST" /\ last.status = 302
  /\ Len(reservations) = 3
  /\ \E s \in BagToSet(suspended) : s.req.path = "/overview"

\* C27: in cookie mode, in the state the handler of GET /logout leaves for a
\* caller with identity u, the session registry holds no entry for u; the
\* response clears the username cookie and redirects to /.
C27_LogoutDropsSession ==
  [][( /\ last'.seq = last.seq + 1
       /\ last'.path = "/logout" /\ ~IsChaosResponse(last')
       /\ config.authMode = Cookie
       /\ Truthy(last'.user) )
     => /\ last'.user \notin DOMAIN cookieSessions'
        /\ \A u \in DOMAIN cookieSessions \ {last'.user} :
             u \in DOMAIN cookieSessions' /\ cookieSessions'[u] = cookieSessions[u]
        /\ last'.status = 302 /\ last'.location = "/"
        /\ last'.setCookie = <<>>
    ]_vars

\* C27: User1 has logged out in cookie mode; the session of Admin is still
\* in the registry and that of User1 is not.
C27_User1LoggedOut ==
  /\ config.authMode = Cookie
  /\ last.path = "/logout" /\ last.status = 302
  /\ last.user = User1
  /\ DOMAIN cookieSessions = {Admin}

\* C28: after any sequence of POST /config requests the chaos percentage
\* lies in 0..100 and the latency of every category is not negative.
C28_ConfigInRange ==
  /\ config.errorRate \in 0..100
  /\ \A k \in DOMAIN config.delays : config.delays[k] >= 0

\* C29: in every reachable state the authentication mode is cookie or token,
\* so a POST /login with valid credentials that its handler answers
\* establishes the identity: it never ends on the login-failure page.
C29_ModeCookieOrToken ==
  /\ [](config.authMode \in {Cookie, Token})
  /\ [][\A s \in BagToSet(suspended) :
          ( /\ Resumes(s) /\ s.req.path = "/login"
            /\ \/ s.req.body.username = Admin /\ s.req.body.password = PassAdmin
               \/ s.req.body.username = User1 /\ s.req.body.password = Pass1 )
          => /\ AnswersLogin
             /\ ~Refused(last', 200, "Login Failed")
             /\ LoggedInAs(last', s.req.body.username)
       ]_vars

\* C30: a GET /rooms/:id by a caller with an identity, for an id the room
\* catalog does not have, that reaches its handler is answered with the
\* not-found status 404.
C30_UnknownRoomNotFound ==
  [][( /\ last'.seq = last.seq + 1
       /\ last'.path = "/rooms/:id" /\ ~IsChaosResponse(last')
       /\ Truthy(last'.user)
       /\ last'.id \notin roomTypes )
     => last'.status = 404
    ]_vars

\* C31: in cookie mode the identity middleware leaves, for every request
\* that carries a username cookie u, an entry of u with the current time in
\* the session registry, whichever route the request is for.  The entry is
\* in the registry after the step that receives the request, also when the
\* chaos check has failed it, unless the handler the request reaches is the
\* logout or a mode switch, which remove it again.
C31_CookieUpsert ==
  /\ [](config.authMode = Cookie =>
          \A c \in Credentials :
            Truthy(c.cookie) =>
              LET after == AuthMiddleware(Request("GET", "/menu", c, NoBody)).sessions
              IN  c.cookie \in DOMAIN after /\ after[c.cookie] = now)
  /\ [][config.authMode = Cookie =>
          \A r \in NewlyResolved :
            Truthy(r.cookie) =>
              \/ r.cookie \in DOMAIN cookieSessions' /\ cookieSessions'[r.cookie] = now
              \/ last'.seq = last.seq + 1 /\ last'.path = "/logout"
                   /\ ~IsChaosResponse(last')
              \/ config'.authMode # config.authMode
       ]_vars

\* C31: the chaos check has failed a request for the room list that carried
\* the cookie of User1, who never logged in; the registry has the entry.
C31_RefreshedThenFailed ==
  /\ config.authMode = Cookie
  /\ IsChaosResponse(last)
  /\ last.path = "/rooms"
  /\ last.cookie = User1
  /\ User1 \in DOMAIN cookieSessions
  /\ relogged = {}

\* C32: in cookie mode every request is resolved to exactly the value of
\* its username cookie, and to no identity when it has none, whether or not
\* that username has logged in and whether or not the session registry has
\* an entry for it.
C32_CookieVerbatim ==
  [][config.authMode = Cookie =>
       \A r \in NewlyResolved : r.user = r.cookie /\ r.token = Undefined
    ]_vars

\* C32: the overview of Admin has been served to a request that carried the
\* cookie of Admin, while nobody has logged in.
C32_ServedWithoutLogin ==
  /\ config.authMode = Cookie
  /\ relogged = {}
  /\ last.path = "/overview" /\ last.status = 200
  /\ last.cookie = Admin /\ last.user = Admin
  /\ Len(last.rows) = 1

\* the latency category of a route
CategoryOf(path) ==
  CASE path \in {"/", "/login"} -> "login"
    [] path = "/menu" -> "menu"
    [] path = "/overview" -> "overview"
    [] path = "/reserve" -> "reserve"
    [] path \in {"/rooms", "/rooms/:id"} -> "rooms"

\* C33: each of the five latency categories (login, menu, overview, reserve,
\* rooms) can be set to a value other than 0 by a POST /config, and a request
\* to a route of a category is suspended for the value configured for the
\* category when the request reaches its handler.
C33_LatencyPerCategory ==
  /\ [][\A x \in BagToSet(suspended') :
          suspended' = suspended (+) SetToBag({x})
            => x.delay = config.delays[CategoryOf(x.req.path)]
       ]_vars
  /\ [](CanReceive =>
          \A k \in DOMAIN config.delays :
            ENABLED ( /\ \E c \in CookieCredentials, b \in ConfigForms :
                           PostConfig(Request("POST", "/config", c, b), 99)
                      /\ config'.delays[k] # 0 ))

\* C34: in every reachable state the registry of the inactive mode is
\* empty: the token registry has entries only while the mode is token and
\* the session registry only while the mode is cookie, also when a login is
\* suspended while the mode is switched.
C34_InactiveRegistryEmpty ==
  /\ tokenStore # EmptyMap => config.authMode = Token
  /\ cookieSessions # EmptyMap => config.authMode = Cookie

\* C34: a login that arrived in cookie mode with the cookie of User1 has been
\* answered in token mode, after a switch during its delay: its token is
\* registered and the session registry is empty.
C34_LoginAcrossSwitch ==
  /\ config.authMode = Token
  /\ last.path = "/login" /\ last.status = 302
  /\ last.cookie = User1 /\ last.user = User1
  /\ last.linkToken \in DOMAIN tokenStore
  /\ cookieSessions = EmptyMap

\* a suspended request is a booking request
IsBooking(s) == s.req.method = "POST" /\ s.req.path = "/reserve"

\* C35: a POST /reserve appends a reservation only if the identity it was
\* resolved with is still valid at the moment of the append: when the
\* credentials of the request no longer resolve to that identity after the
\* delay (its token was removed by a logout or by a mode switch), no
\* reservation is appended.
C35_AppendOnlyWhileValid ==
  [][\A s \in BagToSet(suspended) :
       (IsBooking(s) /\ Resumes(s) /\ AnswersReserve /\ reservations' # reservations)
         => AuthMiddleware(s.req).user = s.user
    ]_vars

\* C35 as the handler decides it: the identity is resolved once, when the
\* request arrives; after the delay the record is appended exactly when the
\* checks of the form against the store accept it, with bookedBy the
\* identity resolved on arrival, whether or not the token is still
\* registered.
C35_AppendUnderArrivalIdentity ==
  [][\A s \in BagToSet(suspended) :
       (IsBooking(s) /\ Resumes(s) /\ AnswersReserve) =>
         IF ReserveOutcome(s.req.body, reservations, now, tz) = "accepted"
           THEN /\ Len(reservations') = Len(reservations) + 1
                /\ reservations'[Len(reservations')].bookedBy = s.user
                /\ last'.status = 302 /\ last'.location = "/overview"
           ELSE reservations' = reservations
    ]_vars

\* C35: a booking presented with the token of User1 has been accepted and
\* stored for User1 in token mode after the token was removed from the
\* registry during the delay.
C35_StoredAfterLogout ==
  /\ config.authMode = Token
  /\ last.method = "POST" /\ last.path = "/reserve" /\ last.status = 302
  /\ last.user = User1 /\ last.token = TokenA3
  /\ TokenA3 \notin DOMAIN tokenStore
  /\ Len(reservations) = Len(TwoGuests) + 1
  /\ reservations[Len(reservations)].bookedBy = User1

\* the fields of a form that has a guest, a room and a check-in date, as the
\* handler stores them
StoredFields(b) ==
  [guest |-> escapeHtml(b.guest), room |-> escapeHtml(b.room),
   checkIn |-> b.checkIn, nights |-> NumberOr(Number(b.nights), 1)]

Complete(b) == Truthy(b.guest) /\ Truthy(b.room) /\ Truthy(b.checkIn)

\* the store holds the record an accepted request with the form b left: a
\* record with the stored fields of b, which no other form of ReserveBodies
\* is stored as
HoldsRecordOf(b, store) ==
  /\ Complete(b)
  /\ \A b2 \in ReserveBodies :
       Complete(b2) /\ StoredFields(b2) = StoredFields(b) => b2 = b
  /\ \E k \in 1..Len(store) :
       /\ store[k].guest = StoredFields(b).guest
       /\ store[k].room = StoredFields(b).room
       /\ store[k].checkIn = StoredFields(b).checkIn
       /\ store[k].nights = StoredFields(b).nights

\* C36: a POST /reserve with the guest, room, checkIn and nights of a
\* request that was accepted, answered while the accepted record is in the
\* store and the check-in date has not passed, ends with the 409 conflict,
\* for every room name and every nights value.
C36_ResubmissionConflicts ==
  [][\A s \in BagToSet(suspended) :
       ( /\ IsBooking(s) /\ Resumes(s) /\ AnswersReserve
         /\ HoldsRecordOf(s.req.body, reservations)
         /\ ~InThePast(s.req.body.checkIn, now, tz) )
         => last'.status = 409 /\ reservations' = reservations
    ]_vars

\* C37: a GET /logout answered in token mode removes from the token
\* registry at most the token the request presented and leaves every other
\* token, those of the same username included, the session registry, the
\* reservation store and the configuration unchanged; a logout that
\* presents no token, or a token that is not registered, removes nothing.
C37_LogoutRemovesOneToken ==
  [][(config.authMode = Token /\ last'.seq = last.seq + 1 /\ last'.path = "/logout")
       => /\ DOMAIN tokenStore \ {last'.token} \subseteq DOMAIN tokenStore'
          /\ DOMAIN tokenStore' \subseteq DOMAIN tokenStore
          /\ \A k \in DOMAIN tokenStore' : tokenStore'[k] = tokenStore[k]
          /\ (~Truthy(last'.token) \/ last'.token \notin DOMAIN tokenStore)
               => tokenStore' = tokenStore
          /\ cookieSessions' = cookieSessions
          /\ reservations' = reservations
          /\ config' = config
    ]_vars

\* C37: User1 holds two registered tokens and has logged out with the first
\* one: the first is gone and the second is still registered for User1.
C37_OtherTokenKept ==
  /\ config.authMode = Token
  /\ last.path = "/logout" /\ last.status = 302
  /\ last.token = TokenA3 /\ last.user = User1
  /\ TokenA3 \notin DOMAIN tokenStore
  /\ Token7F \in DOMAIN tokenStore
  /\ tokenStore[Token7F].username = User1

\* the step is a POST /config whose form has no authMode field
ModelessConfigStep ==
  \E c \in CookieCredentials, b \in ModelessForms, rnd \in RandomPercent :
    PostConfig(Request("POST", "/config", c, b), rnd)

\* C38: a POST /config that carries no authMode field keeps the current
\* authentication mode and removes no token and no session entry.
C38_ModelessKeepsMode ==
  [][ModelessConfigStep
       => /\ config'.authMode = config.authMode
          /\ tokenStore' = tokenStore
          /\ \A u \in DOMAIN cookieSessions : u \in DOMAIN cookieSessions'
    ]_vars

\* the step is a POST /config whose form has fields, none of them authMode
FieldedModelessStep ==
  \E c \in CookieCredentials, b \in ModelessForms \ {NoBody},
     rnd \in RandomPercent :
    PostConfig(Request("POST", "/config", c, b), rnd)

\* the step is a POST /config whose form names this mode
NamedConfigStep(mode) ==
  \E rnd \in RandomPercent :
    PostConfig(Request("POST", "/config", Anonymous,
                       [NoBody EXCEPT !.authMode = mode]), rnd)

\* the step leaves this mode set: when it was the mode before, the tokens
\* and the sessions are kept; when it was not, both registries are emptied
SetsMode(mode) ==
  /\ config'.authMode = mode
  /\ config.authMode = mode
       => /\ tokenStore' = tokenStore
          /\ \A u \in DOMAIN cookieSessions : u \in DOMAIN cookieSessions'
  /\ config.authMode # mode
       => tokenStore' = EmptyMap /\ cookieSessions' = EmptyMap

\* the step answers 500 from the handler's TypeError and keeps the
\* configuration, the tokens and the sessions
RejectsForm ==
  /\ last'.seq = last.seq + 1
  /\ last'.status = 500 /\ last'.page = "TypeError"
  /\ config' = config
  /\ tokenStore' = tokenStore
  /\ \A u \in DOMAIN cookieSessions : u \in DOMAIN cookieSessions'

\* C38 as the handler decides it: a POST /config whose form has fields but
\* no authMode field sets the cookie mode.  In cookie mode it therefore keeps
\* the mode, the tokens and the sessions; in another mode it is a switch to
\* the cookie mode, which empties both registries.  A POST /config without
\* any form field does the same where the body parser leaves an empty
\* object, and is answered 500 with nothing changed where it leaves the body
\* undefined.  A form that names a mode sets that mode, and empties the
\* registries exactly when the mode before was another one.
C38_ModelessMeansCookie ==
  [][/\ FieldedModelessStep => SetsMode(Cookie)
     /\ FieldlessConfigStep => SetsMode(Cookie) \/ RejectsForm
     /\ NamedConfigStep(Token) => SetsMode(Token)
    ]_vars

\* C38: a POST /config has been answered with the page of a changed mode
\* and the mode is cookie, so the mode was another one before: the request
\* had no authMode field (no form of SpecDefault names the cookie mode).  It
\* had other fields: the booking delay is the 5 ms only the form with
\* delay_reserve=5 sets.  Both registries are empty.
C38_SwitchedWithoutMode ==
  /\ last.method = "POST" /\ last.path = "/config"
  /\ last.status = 200 /\ last.page = "Configuration Updated"
  /\ config.authMode = Cookie
  /\ config.delays.reserve = 5
  /\ tokenStore = EmptyMap /\ cookieSessions = EmptyMap
  /\ relogged = {}

\* a POST /config without any form field has been answered 500 in token
\* mode, and the token registered before it is still registered
FieldlessRejectedInTokenMode ==
  /\ last.method = "POST" /\ last.path = "/config"
  /\ last.status = 500 /\ last.page = "TypeError"
  /\ config.authMode = Token
  /\ TokenA3 \in DOMAIN tokenStore

\* C39: every request that enters the pipeline eventually receives exactly
\* one response, whatever its form: at any time each request received so far
\* has been answered once or waits in its delay, and from some time on none
\* waits and the responses sent are as many as the requests received.  The
\* forms include a login without a username field and valid logins in
\* cookie mode and in token mode.
C39_EveryRequestAnswered ==
  /\ [](last.seq + BagCardinality(suspended) = issued)
  /\ <>[](suspended = EmptyBag /\ last.seq = issued)
====
